---- MODULE Spec2Model ----
(***************************************************************************)
(* Risk decisioning pipeline of Durin: the underwriting scorer             *)
(* (backend/app/underwriting_scorer.py), the fraud graph analyzer          *)
(* (backend/app/graph_analyzer.py) and the cashflow analyzer               *)
(* (backend/app/cashflow_analyzer.py).                                     *)
(*                                                                         *)
(* Spec          one call of UnderwritingScorer.score on inputs drawn from *)
(*               bounded sets.                                             *)
(* SpecGraph     one call of FraudGraphAnalyzer.build_graph on a snapshot  *)
(*               drawn from bounded sets.                                  *)
(* SpecRebuild   successive build_graph calls on the one analyzer, with    *)
(*               well-formed and malformed datasets.                       *)
(* SpecParallel  build_graph calls interleaved on the one analyzer.        *)
(* SpecCashflow  successive CashflowAnalyzer.analyze calls on the one      *)
(*               analyzer.                                                 *)
(***************************************************************************)
EXTENDS Integers, Sequences, FiniteSets, TLC

VARIABLES
    pc,               \* position of the scorer's caller: "call" | "done"
    user_id,          \* score(): argument
    personal_data,    \* score(): argument, [tenure_months]
    cashflow_metrics, \* score(): argument, the CashflowMetrics fields score reads
    liveness_result,  \* score(): argument, [liveness_pass, replay_detected, sanctions_pass]
    jurisdiction,     \* score(): argument
    pd_score,         \* score(): local pd_score (a double), <<>> when not computed
    feature_impacts,  \* score(): local feature_impacts, <<>> when not computed
    decision,         \* the UnderwritingDecision returned, <<>> before the call
    gpc,              \* position of the analyzer's caller: "idle" | "built" | "failed"
    calls,            \* the build_graph calls in flight on the analyzer, by caller:
                      \* [pc, users, txns, ret]
    previous,         \* history: the node ids and signal keys held when the last
                      \* build_graph call began
    users_df,         \* build_graph(): argument, sequence of user rows
    transactions_df,  \* build_graph(): argument, sequence of transaction rows
    graph,            \* FraudGraphAnalyzer.graph: [nodes, edges]
    fraud_signals,    \* FraudGraphAnalyzer.fraud_signals: node -> sequence of signals
    risk_scores,      \* FraudGraphAnalyzer.risk_scores: node -> score in tenths
    results,          \* the dict build_graph returned, <<>> before the call
    bank_transactions,\* analyze(): argument transactions, sequence of BankTransaction
    self_transactions,\* CashflowAnalyzer.transactions
    returned,         \* <<m>> when analyze returned the CashflowMetrics m, else <<>>
    raised,           \* the exception analyze raised, "" when none
    check_history,    \* LivenessCheckerV2.check_history: user_id -> check count
    device_usage,     \* LivenessCheckerV2.device_usage: device -> set of user_ids
    face_embeddings,  \* LivenessCheckerV2.face_embeddings: user_id -> embedding
    liveness_call,    \* the last verify_liveness call: [check, result], <<>> before
    db_users,         \* table users: user_id -> row
    db_transactions,  \* table transactions: user_id -> the txn_ids stored
    db_liveness,      \* table liveness_checks: rows, oldest first
    db_decisions,     \* table decisions: rows, oldest first
    response          \* the last response of the service, <<>> before any request

scorerVars == <<pc, user_id, personal_data, cashflow_metrics, liveness_result,
                jurisdiction, pd_score, feature_impacts, decision>>
graphVars  == <<gpc, calls, previous, users_df, transactions_df, graph, fraud_signals,
                risk_scores, results>>
cashVars   == <<bank_transactions, self_transactions, returned, raised>>
checkerVars == <<check_history, device_usage, face_embeddings, liveness_call>>
dbVars     == <<db_users, db_transactions, db_liveness, db_decisions, response>>
serviceVars == <<checkerVars, dbVars>>
vars == <<scorerVars, graphVars, cashVars, serviceVars>>

(***************************************************************************)
(* IEEE-754 binary64 arithmetic on the values the scorer handles.          *)
(*                                                                         *)
(* A double x near a decimal m/1000 is held as [m, e] with                 *)
(*      x = m/1000 + e / (125 * 2^60)                                      *)
(* so that x, counted in units of 1/(125*2^60), is m*2^57 + e.  Every      *)
(* literal of the PD table is at least 0.005 in magnitude, so every value  *)
(* is a multiple of 2^-60 = 125 units, and |e| stays far below 2^57.       *)
(***************************************************************************)
\* 2^n mod q, by repeated squaring (q <= 16000, so the squares fit)
RECURSIVE Pow2Mod(_, _)
Pow2Mod(n, q) ==
    IF n = 0 THEN 1 % q
    ELSE LET h == Pow2Mod(n \div 2, q)
         IN  IF n % 2 = 0 THEN (h * h) % q ELSE (((h * h) % q) * 2) % q

RECURSIVE Pow2(_)
Pow2(n) == IF n = 0 THEN 1 ELSE 2 * Pow2(n - 1)

FNeg(x) == [m |-> 0 - x.m, e |-> 0 - x.e]

FIsNeg(x) == x.m < 0 \/ (x.m = 0 /\ x.e < 0)

FLe(x, y) == x.m < y.m \/ (x.m = y.m /\ x.e <= y.e)

FLt(x, y) == x.m < y.m \/ (x.m = y.m /\ x.e < y.e)

\* log2 of the spacing of doubles, in units of 2^-60, in the binade of x >= 0
\* (x < 0.5): 2^-54 in [1/4, 1/2), 2^-55 in [1/8, 1/4), ..., 2^-60 below 2^-7.
GridExp(x) ==
    IF x.m > 250 \/ (x.m = 250 /\ x.e >= 0) THEN 6
    ELSE IF x.m > 125 \/ (x.m = 125 /\ x.e >= 0) THEN 5
    ELSE IF x.m >= 63 THEN 4
    ELSE IF x.m >= 32 THEN 3
    ELSE IF x.m >= 16 THEN 2
    ELSE IF x.m >= 8 THEN 1
    ELSE 0

\* 2^57 mod 125*2^g, for every spacing g (and its double) in use
Pow57Mod == [g \in 0..7 |-> Pow2Mod(57, 125 * Pow2(g))]

\* (m*2^57 + e) mod 125*2^g, for x >= 0
UnitsMod(x, g) == ((x.m * Pow57Mod[g]) + x.e) % (125 * Pow2(g))

\* round-to-nearest, ties-to-even, of an exact x >= 0 onto the doubles
RoundPos(x) ==
    LET g  == GridExp(x)
        D  == 125 * Pow2(g)
        r  == UnitsMod(x, g)
        r2 == UnitsMod(x, g + 1)
        down == [m |-> x.m, e |-> x.e - r]
        up   == [m |-> x.m, e |-> x.e + (D - r)]
    IN  IF r = 0 THEN x
        ELSE IF 2 * r < D THEN down
        ELSE IF 2 * r > D THEN up
        ELSE IF r2 >= D THEN up ELSE down

RoundF(x) == IF FIsNeg(x) THEN FNeg(RoundPos(FNeg(x))) ELSE RoundPos(x)

\* the double a decimal literal m/1000 denotes, -0.03 <= m/1000 <= 0.3
LitTable == [m \in -30..300 |-> RoundF([m |-> m, e |-> 0])]

Lit(m) == LitTable[m]

\* x + y in binary64
FAdd(x, y) == RoundF([m |-> x.m + y.m, e |-> x.e + y.e])

FMax(x, y) == IF FLt(x, y) THEN y ELSE x

FMin(x, y) == IF FLt(y, x) THEN y ELSE x

(***************************************************************************)
(* UnderwritingScorer.  Ratios are held in thousandths (0.25 is 250), days *)
(* and months and money as integers: a decimal input and the decimal       *)
(* literal it is compared with denote the same doubles, so these           *)
(* comparisons are the code's.  The PD itself is a double (see above).     *)
(***************************************************************************)

\* THRESHOLDS['US'], THRESHOLDS['UK']
THRESHOLDS_US ==
    [min_buffer_days |-> 15, max_payment_burden |-> 400, min_on_time_ratio |-> 850,
     max_nsf_count |-> 2, max_income_cv |-> 500, starter_max_pd |-> 120,
     prime_max_pd |-> 60]

THRESHOLDS_UK ==
    [min_buffer_days |-> 20, max_payment_burden |-> 350, min_on_time_ratio |-> 900,
     max_nsf_count |-> 1, max_income_cv |-> 400, starter_max_pd |-> 100,
     prime_max_pd |-> 50]

\* self.THRESHOLDS.get(jurisdiction, self.THRESHOLDS['US'])
Thresholds(j) == IF j = "UK" THEN THRESHOLDS_UK ELSE THRESHOLDS_US

\* mutant: the limits listed the other way round
LimitTiersAscending ==
    << <<0, 30, 800>>, <<30, 60, 1200>>, <<60, 90, 2000>>, <<90, 120, 3000>> >>

\* LIMIT_TIERS: (min_pd, max_pd, limit)
LIMIT_TIERS == << <<0, 30, 3000>>, <<30, 60, 2000>>, <<60, 90, 1200>>, <<90, 120, 800>> >>

\* _calculate_pd, 1. buffer days
BufferDelta(buffer_days) ==
    IF buffer_days >= 30 THEN -25
    ELSE IF buffer_days >= 20 THEN -15
    ELSE IF buffer_days >= 15 THEN -5
    ELSE IF buffer_days >= 10 THEN 10
    ELSE 25

\* mutant: the two middle buckets swapped
BurdenDeltaSwapped(payment_burden) ==
    IF payment_burden <= 250 THEN -20
    ELSE IF payment_burden <= 350 THEN 15
    ELSE IF payment_burden <= 450 THEN -10
    ELSE 30

\* _calculate_pd, 2. payment burden
BurdenDelta(payment_burden) ==
    IF payment_burden <= 250 THEN -20
    ELSE IF payment_burden <= 350 THEN -10
    ELSE IF payment_burden <= 450 THEN 15
    ELSE 30

\* _calculate_pd, 3. on-time ratio
OnTimeDelta(on_time_ratio) ==
    IF on_time_ratio >= 950 THEN -15
    ELSE IF on_time_ratio >= 850 THEN -5
    ELSE IF on_time_ratio >= 750 THEN 10
    ELSE 25

\* _calculate_pd, 4. NSF events
NsfDelta(nsf_count_90d) ==
    IF nsf_count_90d = 0 THEN -10
    ELSE IF nsf_count_90d = 1 THEN 15
    ELSE 30

\* _calculate_pd, 5. income stability
IncomeCvDelta(income_cv) ==
    IF income_cv <= 200 THEN -10
    ELSE IF income_cv <= 400 THEN 0
    ELSE IF income_cv <= 600 THEN 15
    ELSE 25

\* _calculate_pd, 6. income level
IncomeLevelDelta(net_income_median) ==
    IF net_income_median >= 4000 THEN -10
    ELSE IF net_income_median >= 2500 THEN -5
    ELSE IF net_income_median >= 1500 THEN 0
    ELSE 15

\* _calculate_pd, 7. employment tenure
TenureDelta(tenure_months) ==
    IF tenure_months >= 24 THEN -10
    ELSE IF tenure_months >= 12 THEN -5
    ELSE IF tenure_months >= 6 THEN 5
    ELSE 15

\* base_pd = 0.08
BasePd == 80

\* mutant: the lower clamp forgotten
ClampPdUpperOnly(pd) == FMin(Lit(300), pd)

\* mutant: the floor set at 0.05
ClampPdFloorHigh(pd) == FMax(Lit(50), FMin(Lit(300), pd))

\* pd = max(0.01, min(0.30, pd))
ClampPd(pd) == FMax(Lit(10), FMin(Lit(300), pd))

\* _calculate_pd: (pd, impacts); pd += delta is a binary64 addition each time
CalculatePd(metrics, personal, thresholds) ==
    LET d1 == BufferDelta(metrics.buffer_days)
        d2 == BurdenDelta(metrics.payment_burden)
        d3 == OnTimeDelta(metrics.on_time_ratio)
        d4 == NsfDelta(metrics.nsf_count_90d)
        d5 == IncomeCvDelta(metrics.income_cv)
        d6 == IncomeLevelDelta(metrics.net_income_median)
        d7 == TenureDelta(personal.tenure_months)
        p1 == FAdd(Lit(BasePd), Lit(d1))
        p2 == FAdd(p1, Lit(d2))
        p3 == FAdd(p2, Lit(d3))
        p4 == FAdd(p3, Lit(d4))
        p5 == FAdd(p4, Lit(d5))
        p6 == FAdd(p5, Lit(d6))
        p7 == FAdd(p6, Lit(d7))
    IN  [pd |-> ClampPd(p7),
         impacts |-> [buffer_days |-> d1, payment_burden |-> d2, on_time_ratio |-> d3,
                      nsf_count |-> d4, income_cv |-> d5, income_level |-> d6,
                      tenure |-> d7]]

\* one RiskReason (the description text is left out)
Reason(code, impact, severity) == [code |-> code, impact |-> impact, severity |-> severity]

Abs(x) == IF x < 0 THEN 0 - x ELSE x

\* reasons.sort(key=lambda r: abs(r.impact), reverse=True): stable, so a reason
\* goes behind every earlier reason whose key is at least its own
RECURSIVE InsertReason(_, _)
InsertReason(r, sorted) ==
    IF sorted = <<>> THEN <<r>>
    ELSE IF Abs(Head(sorted).impact) >= Abs(r.impact)
         THEN <<Head(sorted)>> \o InsertReason(r, Tail(sorted))
         ELSE <<r>> \o sorted

RECURSIVE SortReasons(_)
SortReasons(rs) ==
    IF rs = <<>> THEN <<>>
    ELSE InsertReason(rs[Len(rs)], SortReasons(SubSeq(rs, 1, Len(rs) - 1)))

\* s[:n]
Take(s, n) == SubSeq(s, 1, IF Len(s) < n THEN Len(s) ELSE n)

\* _generate_reasons
GenerateReasons(metrics, personal, impacts, thresholds) ==
    LET buffer ==
            IF metrics.buffer_days < thresholds.min_buffer_days
            THEN <<Reason("INSUFFICIENT_BUFFER_DAYS", impacts.buffer_days,
                          IF metrics.buffer_days < 10 THEN "high" ELSE "medium")>>
            ELSE IF metrics.buffer_days >= 30
            THEN <<Reason("STRONG_CASH_BUFFER", impacts.buffer_days, "low")>>
            ELSE <<>>
        burden ==
            IF metrics.payment_burden > thresholds.max_payment_burden
            THEN <<Reason("HIGH_PAYMENT_BURDEN", impacts.payment_burden, "high")>>
            ELSE IF metrics.payment_burden <= 250
            THEN <<Reason("LOW_PAYMENT_BURDEN", impacts.payment_burden, "low")>>
            ELSE <<>>
        ontime ==
            IF metrics.on_time_ratio < thresholds.min_on_time_ratio
            THEN <<Reason("LATE_PAYMENT_HISTORY", impacts.on_time_ratio,
                          IF metrics.on_time_ratio < 750 THEN "high" ELSE "medium")>>
            ELSE <<>>
        nsf ==
            IF metrics.nsf_count_90d > thresholds.max_nsf_count
            THEN <<Reason("NSF_EVENTS_DETECTED", impacts.nsf_count, "high")>>
            ELSE <<>>
        cv ==
            IF metrics.income_cv > thresholds.max_income_cv
            THEN <<Reason("IRREGULAR_INCOME", impacts.income_cv, "medium")>>
            ELSE IF metrics.income_cv <= 200
            THEN <<Reason("STABLE_INCOME", impacts.income_cv, "low")>>
            ELSE <<>>
    IN  Take(SortReasons(buffer \o burden \o ontime \o nsf \o cv), 5)

\* one Counterfactual; pd_delta in units of 0.00001, the values in the metric's units
Counterfactual(action, current, target, pd_delta, feasibility) ==
    [action |-> action, current_value |-> current, target_value |-> target,
     pd_delta |-> pd_delta, feasibility |-> feasibility]

\* _generate_counterfactuals
GenerateCounterfactuals(metrics, impacts) ==
    LET buffer ==
            IF metrics.buffer_days < 20 /\ impacts.buffer_days > 0
            THEN <<Counterfactual("Increase cash buffer to 20 days",
                                  metrics.buffer_days, 20, -1500, "moderate")>>
            ELSE <<>>
        burden ==
            IF metrics.payment_burden > 350 /\ impacts.payment_burden > 0
            THEN <<Counterfactual("Reduce payment burden to 30% of income",
                                  metrics.payment_burden, 300,
                                  (300 - metrics.payment_burden) * 5, "hard")>>
            ELSE <<>>
        ontime ==
            IF metrics.on_time_ratio < 900
            THEN <<Counterfactual("Achieve 100% on-time payment rate for 3 months",
                                  metrics.on_time_ratio, 1000, -2000, "easy")>>
            ELSE <<>>
        nsf ==
            IF metrics.nsf_count_90d > 0
            THEN <<Counterfactual("Eliminate NSF/overdraft events",
                                  metrics.nsf_count_90d, 0,
                                  (-1500) * metrics.nsf_count_90d, "moderate")>>
            ELSE <<>>
    IN  Take(buffer \o burden \o ontime \o nsf, 3)

\* _determine_credit_limit: the first tier with min_pd <= pd < max_pd, else 0
RECURSIVE LimitFrom(_, _)
LimitFrom(tiers, pd) ==
    IF tiers = <<>> THEN 0
    ELSE IF FLe(Lit(Head(tiers)[1]), pd) /\ FLt(pd, Lit(Head(tiers)[2]))
         THEN Head(tiers)[3]
         ELSE LimitFrom(Tail(tiers), pd)

DetermineCreditLimit(pd) == LimitFrom(LIMIT_TIERS, pd)

\* _determine_apr: min(12.0 + pd * 100, 35.99), in hundredths of a percent
DetermineApr(pd) ==
    LET apr == 1200 + 10 * pd.m
    IN  IF apr < 3599 THEN apr ELSE 3599

\* lgd = 0.45, in hundredths
Lgd == 45

\* round(pd_score, 4), in ten-thousandths: a double is within 10^-15 of its m/1000
Round4(pd) == 10 * pd.m

\* round(pd_score * lgd * ead, 2), in cents: pd.m * 45 * ead / 1000 is a whole
\* number of cents for every limit of LIMIT_TIERS
ExpectedLoss(pd, ead) == (pd.m * Lgd * ead) \div 1000

\* mutant: < for <=
ApprovedStrict(pd, thresholds) == FLt(pd, Lit(thresholds.starter_max_pd))

\* pd_score <= thresholds['starter_max_pd']
Approved(pd, thresholds) == FLe(pd, Lit(thresholds.starter_max_pd))

\* mutant: the gate reads replay_detected
FraudGateFailedOnReplay(liveness) == liveness.replay_detected

\* if not liveness_result.liveness_pass
FraudGateFailed(liveness) == ~liveness.liveness_pass

\* _decline_fraud_gate
DeclineFraudGate(uid, j, liveness) ==
    LET r1 == IF ~liveness.liveness_pass
              THEN <<Reason("LIVENESS_CHECK_FAILED", 1000, "high")>> ELSE <<>>
        r2 == IF liveness.replay_detected
              THEN <<Reason("REPLAY_DETECTED", 1000, "high")>> ELSE <<>>
        r3 == IF ~liveness.sanctions_pass
              THEN <<Reason("SANCTIONS_SCREENING_FAILED", 1000, "high")>> ELSE <<>>
    IN  [user_id |-> uid, jurisdiction |-> j, fraud_gate_passed |-> FALSE,
         liveness_result |-> liveness, cashflow_metrics |-> <<>>,
         pd_12m |-> 10000, lgd |-> Lgd, expected_loss |-> 0, approved |-> FALSE,
         credit_limit |-> 0, apr |-> <<>>, reasons |-> r1 \o r2 \o r3,
         counterfactuals |-> <<>>]

\* score, after the fraud gate: the decision built from pd and impacts
ScoreDecision(uid, personal, metrics, liveness, j, calc) ==
    LET thresholds == Thresholds(j)
        approved == Approved(calc.pd, thresholds)
        credit_limit == IF approved THEN DetermineCreditLimit(calc.pd) ELSE 0
    IN  [user_id |-> uid, jurisdiction |-> j, fraud_gate_passed |-> TRUE,
         liveness_result |-> liveness, cashflow_metrics |-> <<metrics>>,
         pd_12m |-> Round4(calc.pd), lgd |-> Lgd,
         expected_loss |-> ExpectedLoss(calc.pd, credit_limit),
         approved |-> approved, credit_limit |-> credit_limit,
         apr |-> IF approved THEN <<DetermineApr(calc.pd)>> ELSE <<>>,
         reasons |-> GenerateReasons(metrics, personal, calc.impacts, thresholds),
         counterfactuals |-> GenerateCounterfactuals(metrics, calc.impacts)]

(***************************************************************************)
(* The inputs of score: one value inside every bucket of the PD table and  *)
(* on the bucket edges the two threshold tables tell apart.                *)
(***************************************************************************)
MaxNsfCount == 2

BufferDaysValues == {5, 10, 15, 20, 35}
PaymentBurdenValues == {200, 300, 400, 500}
OnTimeRatioValues == {700, 800, 900, 980}
NsfCounts == 0..MaxNsfCount
IncomeCvValues == {100, 300, 500, 700}
NetIncomeValues == {1000, 2000, 3000, 5000}
TenureValues == {3, 8, 18, 30}
Jurisdictions == {"US", "UK"}

MetricsValues ==
    [buffer_days : BufferDaysValues, payment_burden : PaymentBurdenValues,
     on_time_ratio : OnTimeRatioValues, nsf_count_90d : NsfCounts,
     income_cv : IncomeCvValues, net_income_median : NetIncomeValues]

PersonalValues == [tenure_months : TenureValues]

LivenessValues ==
    {[liveness_pass |-> TRUE, replay_detected |-> FALSE, sanctions_pass |-> TRUE],
     [liveness_pass |-> FALSE, replay_detected |-> FALSE, sanctions_pass |-> TRUE],
     [liveness_pass |-> FALSE, replay_detected |-> TRUE, sanctions_pass |-> FALSE]}

NoHistory == [nodes |-> {}, signalled |-> {}]

CashflowIdle ==
    /\ bank_transactions = <<>>
    /\ self_transactions = <<>>
    /\ returned = <<>>
    /\ raised = ""

CheckerIdle ==
    /\ check_history = <<>>
    /\ device_usage = <<>>
    /\ face_embeddings = <<>>
    /\ liveness_call = <<>>

ServiceIdle ==
    /\ CheckerIdle
    /\ db_users = <<>>
    /\ db_transactions = <<>>
    /\ db_liveness = <<>>
    /\ db_decisions = <<>>
    /\ response = <<>>

GraphIdle ==
    /\ gpc = "idle"
    /\ calls = <<>>
    /\ previous = NoHistory
    /\ users_df = <<>>
    /\ transactions_df = <<>>
    /\ graph = [nodes |-> <<>>, edges |-> <<>>]
    /\ fraud_signals = <<>>
    /\ risk_scores = <<>>
    /\ results = <<>>

Init ==
    /\ pc = "call"
    /\ user_id = "user_1"
    /\ personal_data \in PersonalValues
    /\ cashflow_metrics \in MetricsValues
    /\ liveness_result \in LivenessValues
    /\ jurisdiction \in Jurisdictions
    /\ pd_score = <<>>
    /\ feature_impacts = <<>>
    /\ decision = <<>>
    /\ GraphIdle
    /\ CashflowIdle
    /\ ServiceIdle

\* UnderwritingScorer.score
Score ==
    /\ pc = "call"
    /\ pc' = "done"
    /\ IF FraudGateFailed(liveness_result)
       THEN /\ decision' = DeclineFraudGate(user_id, jurisdiction, liveness_result)
            /\ UNCHANGED <<pd_score, feature_impacts>>
       ELSE LET calc == CalculatePd(cashflow_metrics, personal_data,
                                    Thresholds(jurisdiction))
            IN  /\ pd_score' = <<calc.pd>>
                /\ feature_impacts' = <<calc.impacts>>
                /\ decision' = ScoreDecision(user_id, personal_data, cashflow_metrics,
                                             liveness_result, jurisdiction, calc)
    /\ UNCHANGED <<user_id, personal_data, cashflow_metrics, liveness_result,
                   jurisdiction, graphVars, cashVars, serviceVars>>

Next == Score

Spec == Init /\ [][Next]_vars

(***************************************************************************)
(* Properties of UnderwritingScorer.score, checked under Spec.             *)
(***************************************************************************)
Scored == pc = "done" /\ decision.fraud_gate_passed

\* the inputs with one feature moved to another value
WithBuffer(v)  == [cashflow_metrics EXCEPT !.buffer_days = v]
WithBurden(v)  == [cashflow_metrics EXCEPT !.payment_burden = v]
WithOnTime(v)  == [cashflow_metrics EXCEPT !.on_time_ratio = v]
WithNsf(v)     == [cashflow_metrics EXCEPT !.nsf_count_90d = v]
WithCv(v)      == [cashflow_metrics EXCEPT !.income_cv = v]
WithIncome(v)  == [cashflow_metrics EXCEPT !.net_income_median = v]
PdOf(metrics, personal) == CalculatePd(metrics, personal, Thresholds(jurisdiction)).pd

\* the applicant of the end-to-end example: every feature in its best bucket
BestMetrics ==
    [buffer_days |-> 35, payment_burden |-> 200, on_time_ratio |-> 980,
     nsf_count_90d |-> 0, income_cv |-> 100, net_income_median |-> 5000]

\* C1: a call of score whose liveness_result.liveness_pass is False returns
\* fraud_gate_passed = False, approved = False, pd_12m = 1.0 and credit_limit = 0,
\* the same for every cashflow metrics, personal data and jurisdiction.
C1_FraudGateDeclines ==
    (pc = "done" /\ ~liveness_result.liveness_pass) =>
        /\ decision.fraud_gate_passed = FALSE
        /\ decision.approved = FALSE
        /\ decision.pd_12m = 10000
        /\ decision.credit_limit = 0

\* the best applicant there is, declined at the fraud gate
C1_Witness ==
    /\ pc = "done"
    /\ ~liveness_result.liveness_pass
    /\ cashflow_metrics = BestMetrics
    /\ personal_data.tenure_months = 30
    /\ decision.approved = FALSE

\* the four half-open bands of the claim
C2_Bands == {<<0, 30, 3000>>, <<30, 60, 2000>>, <<60, 90, 1200>>, <<90, 120, 800>>}

\* C2: whenever score returns approved = True, credit_limit is the limit of the
\* one half-open band that contains the PD, and so is never 0.
C2_ApprovedLimitInBand ==
    (pc = "done" /\ decision.approved) =>
        /\ \E b \in C2_Bands :
              /\ FLe(Lit(b[1]), pd_score[1])
              /\ FLt(pd_score[1], Lit(b[2]))
              /\ decision.credit_limit = b[3]
        /\ decision.credit_limit # 0

\* C3: past the fraud gate, approved = True exactly when the computed PD is at
\* most 0.12 (US) or 0.10 (UK); a decision with approved = False has
\* credit_limit 0, no apr and expected_loss 0.
C3_ApprovedIffPdWithinStarter ==
    Scored =>
        /\ decision.approved <=>
              FLe(pd_score[1], Lit(IF jurisdiction = "UK" THEN 100 ELSE 120))
        /\ ~decision.approved =>
              /\ decision.credit_limit = 0
              /\ decision.apr = <<>>
              /\ decision.expected_loss = 0

\* a PD of 0.11: declined in the UK, where the US would approve
C3_Witness ==
    /\ Scored
    /\ jurisdiction = "UK"
    /\ decision.pd_12m = 1100
    /\ ~decision.approved

\* 0.08 plus the seven bucket deltas, clamped to [0.01, 0.30], in thousandths
C4_ExactPd ==
    LET sum == BasePd + BufferDelta(cashflow_metrics.buffer_days)
                      + BurdenDelta(cashflow_metrics.payment_burden)
                      + OnTimeDelta(cashflow_metrics.on_time_ratio)
                      + NsfDelta(cashflow_metrics.nsf_count_90d)
                      + IncomeCvDelta(cashflow_metrics.income_cv)
                      + IncomeLevelDelta(cashflow_metrics.net_income_median)
                      + TenureDelta(personal_data.tenure_months)
    IN  IF sum < 10 THEN 10 ELSE IF sum > 300 THEN 300 ELSE sum

\* C4: _calculate_pd returns max(0.01, min(0.30, 0.08 + the seven bucket deltas)),
\* as a double: within 10^-15 (144115 units of 1/(125*2^60)) of that decimal and
\* equal to it to the four decimals reported; the impacts are exactly the seven
\* deltas; the PD lies in [0.01, 0.30].
C4_PdIsClampedSum ==
    Scored =>
        /\ pd_score[1].m = C4_ExactPd
        /\ Abs(pd_score[1].e) <= 144115
        /\ decision.pd_12m = 10 * C4_ExactPd
        /\ FLe(Lit(10), pd_score[1])
        /\ FLe(pd_score[1], Lit(300))
        /\ feature_impacts[1] =
              [buffer_days    |-> BufferDelta(cashflow_metrics.buffer_days),
               payment_burden |-> BurdenDelta(cashflow_metrics.payment_burden),
               on_time_ratio  |-> OnTimeDelta(cashflow_metrics.on_time_ratio),
               nsf_count      |-> NsfDelta(cashflow_metrics.nsf_count_90d),
               income_cv      |-> IncomeCvDelta(cashflow_metrics.income_cv),
               income_level   |-> IncomeLevelDelta(cashflow_metrics.net_income_median),
               tenure         |-> TenureDelta(personal_data.tenure_months)]

\* the sum falls below the clamp (0.08 - 0.10 = -0.02) and the PD is 0.01
C4_Witness ==
    /\ Scored
    /\ cashflow_metrics = BestMetrics
    /\ personal_data.tenure_months = 30
    /\ pd_score[1] = Lit(10)

\* C5: with the other six features fixed, buffer_days 35 instead of 5 strictly
\* lowers the PD of _calculate_pd and payment_burden 0.50 instead of 0.20
\* strictly raises it.
C5_StrictlyMonotone ==
    Scored =>
        /\ cashflow_metrics.buffer_days = 5 =>
              FLt(PdOf(WithBuffer(35), personal_data), pd_score[1])
        /\ cashflow_metrics.payment_burden = 200 =>
              FLt(pd_score[1], PdOf(WithBurden(500), personal_data))

\* buffer_days = 5 with everything else at its best: the PD is 0.03, and at
\* buffer_days = 35 the sum is below the clamp
C5_Witness ==
    /\ Scored
    /\ cashflow_metrics = [BestMetrics EXCEPT !.buffer_days = 5]
    /\ personal_data.tenure_months = 30
    /\ PdOf(WithBuffer(35), personal_data) = Lit(10)
    /\ FLt(Lit(10), pd_score[1])

\* C6: moving one feature to a more favourable value never raises that
\* feature's delta and never raises the PD.
C6_Monotone ==
    Scored =>
        /\ \A v \in BufferDaysValues : v > cashflow_metrics.buffer_days =>
              /\ BufferDelta(v) <= BufferDelta(cashflow_metrics.buffer_days)
              /\ FLe(PdOf(WithBuffer(v), personal_data), pd_score[1])
        /\ \A v \in PaymentBurdenValues : v < cashflow_metrics.payment_burden =>
              /\ BurdenDelta(v) <= BurdenDelta(cashflow_metrics.payment_burden)
              /\ FLe(PdOf(WithBurden(v), personal_data), pd_score[1])
        /\ \A v \in OnTimeRatioValues : v > cashflow_metrics.on_time_ratio =>
              /\ OnTimeDelta(v) <= OnTimeDelta(cashflow_metrics.on_time_ratio)
              /\ FLe(PdOf(WithOnTime(v), personal_data), pd_score[1])
        /\ \A v \in NsfCounts : v < cashflow_metrics.nsf_count_90d =>
              /\ NsfDelta(v) <= NsfDelta(cashflow_metrics.nsf_count_90d)
              /\ FLe(PdOf(WithNsf(v), personal_data), pd_score[1])
        /\ \A v \in IncomeCvValues : v < cashflow_metrics.income_cv =>
              /\ IncomeCvDelta(v) <= IncomeCvDelta(cashflow_metrics.income_cv)
              /\ FLe(PdOf(WithCv(v), personal_data), pd_score[1])
        /\ \A v \in NetIncomeValues : v > cashflow_metrics.net_income_median =>
              /\ IncomeLevelDelta(v) <= IncomeLevelDelta(cashflow_metrics.net_income_median)
              /\ FLe(PdOf(WithIncome(v), personal_data), pd_score[1])
        /\ \A v \in TenureValues : v > personal_data.tenure_months =>
              /\ TenureDelta(v) <= TenureDelta(personal_data.tenure_months)
              /\ FLe(PdOf(cashflow_metrics, [tenure_months |-> v]), pd_score[1])

\* every feature in its worst bucket: each of the seven has a better value
C6_Witness ==
    /\ Scored
    /\ cashflow_metrics =
          [buffer_days |-> 5, payment_burden |-> 500, on_time_ratio |-> 700,
           nsf_count_90d |-> 2, income_cv |-> 700, net_income_median |-> 1000]
    /\ personal_data.tenure_months = 3
    /\ FLt(PdOf(WithNsf(0), personal_data), pd_score[1])

C7_Case ==
    /\ pc = "done"
    /\ cashflow_metrics = BestMetrics
    /\ personal_data.tenure_months = 30
    /\ liveness_result.liveness_pass
    /\ jurisdiction = "US"

\* C7: buffer_days=35, payment_burden=0.20, on_time_ratio=0.98, nsf_count_90d=0,
\* income_cv=0.1, net_income_median=5000, tenure_months=30, a passing liveness
\* result and jurisdiction US: approved, with the limit of the lowest band, 3000.
C7_BestApplicantApproved ==
    C7_Case => (decision.approved /\ decision.credit_limit = 3000)

C7_Witness == C7_Case /\ decision.fraud_gate_passed /\ decision.pd_12m = 100

(***************************************************************************)
(* FraudGraphAnalyzer.  self.graph is an undirected networkx Graph: its    *)
(* nodes are held in insertion order, each with its attribute dict (an     *)
(* attribute the dict lacks is "", or 0 for user_count), and its edges in  *)
(* insertion order, one per unordered pair.  Amounts are whole currency    *)
(* units, timestamps integers ordered as the ISO strings are, risk scores  *)
(* tenths (the weights are multiples of 0.5, so their sums are exact).     *)
(***************************************************************************)
EmptyGraph == [nodes |-> <<>>, edges |-> <<>>, error |-> FALSE]

NodeIds(g) == {g.nodes[i].id : i \in 1..Len(g.nodes)}

\* node in self.graph
HasNode(g, id) == id \in NodeIds(g)

NodeIndex(g, id) == CHOOSE i \in 1..Len(g.nodes) : g.nodes[i].id = id

\* self.graph.nodes[id]
NodeData(g, id) == g.nodes[NodeIndex(g, id)]

\* d.update(attrs)
Update(d, attrs) == [k \in DOMAIN d |-> IF k \in DOMAIN attrs THEN attrs[k] ELSE d[k]]

BlankNode(id) ==
    [id |-> id, node_type |-> "", user_name |-> "", device_id |-> "", ip |-> "",
     country |-> "", country_name |-> "", user_count |-> 0]

\* Graph.add_node(id, **attrs): a new node, or the attributes of the old one updated
AddNode(g, id, attrs) ==
    IF HasNode(g, id)
    THEN [g EXCEPT !.nodes[NodeIndex(g, id)] = Update(@, attrs)]
    ELSE [g EXCEPT !.nodes = Append(@, Update(BlankNode(id), attrs))]

Joins(e, a, b) == (e.u = a /\ e.v = b) \/ (e.u = b /\ e.v = a)

\* Graph.has_edge(a, b)
HasEdge(g, a, b) == \E i \in 1..Len(g.edges) : Joins(g.edges[i], a, b)

EdgeIndex(g, a, b) == CHOOSE i \in 1..Len(g.edges) : Joins(g.edges[i], a, b)

\* an edge's attribute dict: has_* tell which keys it holds
BlankEdge(a, b) ==
    [u |-> a, v |-> b, edge_type |-> "", weight |-> 0, has_count |-> FALSE, count |-> 0,
     has_total |-> FALSE, total_amount |-> 0, transaction_type |-> "",
     has_transactions |-> FALSE, transactions |-> <<>>]

\* Graph.add_edge(a, b, **attrs): the endpoints are added as bare nodes if new
AddEdge(g, a, b, attrs) ==
    LET g1 == IF HasNode(g, a) THEN g ELSE [g EXCEPT !.nodes = Append(@, BlankNode(a))]
        g2 == IF HasNode(g1, b) THEN g1 ELSE [g1 EXCEPT !.nodes = Append(@, BlankNode(b))]
    IN  IF HasEdge(g2, a, b)
        THEN [g2 EXCEPT !.edges[EdgeIndex(g2, a, b)] = Update(@, attrs)]
        ELSE [g2 EXCEPT !.edges = Append(@, Update(BlankEdge(a, b), attrs))]

\* a cell of a DataFrame that holds no value (float('nan'))
NaN == "NaN"

\* str(cell): a string stays as it is, a missing value reads 'nan'
Str(cell) == IF cell = NaN THEN "nan" ELSE cell

\* country.replace(' ', '_').upper(), on the country values in use
UpperUnderscore(c) ==
    CASE c = "us" -> "US"
      [] c = "uk" -> "UK"
      [] c = "nan" -> "NAN"
      [] OTHER -> c

\* f"COUNTRY_{...}"
CountryNodeId(c) == "COUNTRY_" \o UpperUnderscore(c)

\* row.get(key, default): a row holds the columns of its DataFrame
Get(row, key, default) == IF key \in DOMAIN row THEN row[key] ELSE default

\* build_graph: add user nodes with attributes, until user['user_id'] raises
\* KeyError
RECURSIVE AddUserNodes(_, _)
AddUserNodes(g, rows) ==
    IF rows = <<>> THEN g
    ELSE IF "user_id" \notin DOMAIN Head(rows) THEN [g EXCEPT !.error = TRUE]
    ELSE AddUserNodes(
            AddNode(g, Str(Head(rows).user_id),
                    [node_type |-> "user",
                     user_name |-> Str(Get(Head(rows), "user_name", "")),
                     device_id |-> Str(Get(Head(rows), "device_id", "")),
                     ip |-> Str(Get(Head(rows), "ip", "")),
                     country |-> Str(Get(Head(rows), "country", ""))]),
            Tail(rows))

\* countries: the truthy country values of the rows
CountriesOf(rows) == {Str(Get(rows[i], "country", "")) : i \in 1..Len(rows)} \ {""}

\* build_graph: link users to their country node
RECURSIVE LinkUsers(_, _, _)
LinkUsers(g, rows, country) ==
    IF rows = <<>> THEN g
    ELSE IF Str(Get(Head(rows), "country", "")) = country
    THEN LET cid == CountryNodeId(country)
             g1 == AddEdge(g, Str(Head(rows).user_id), cid,
                           [edge_type |-> "located_in", weight |-> 1])
             g2 == [g1 EXCEPT !.nodes[NodeIndex(g1, cid)].user_count = @ + 1]
         IN  LinkUsers(g2, Tail(rows), country)
    ELSE LinkUsers(g, Tail(rows), country)

\* build_graph: add country nodes, in the order the set countries is iterated
RECURSIVE AddCountryNodes(_, _, _)
AddCountryNodes(g, rows, order) ==
    IF order = <<>> THEN g
    ELSE LET g1 == AddNode(g, CountryNodeId(Head(order)),
                           [node_type |-> "country", country_name |-> Head(order),
                            user_count |-> 0])
         IN  AddCountryNodes(LinkUsers(g1, rows, Head(order)), rows, Tail(order))

TxnRecord(txn) ==
    [amount |-> txn.amount, timestamp |-> txn.timestamp,
     device |-> Str(Get(txn, "device_id", "")), ip |-> Str(Get(txn, "ip", ""))]

\* mutant: a repeated transaction overwrites the edge instead of adding to it
AddTransactionReplacing(g, txn) ==
    LET c2c  == txn.transaction_type = "country_to_country"
        from == IF c2c THEN CountryNodeId(Str(txn.from)) ELSE Str(txn.from)
        to   == IF c2c THEN CountryNodeId(Str(txn.to)) ELSE Str(txn.to)
        g1   == IF c2c THEN g
                ELSE LET ga == IF HasNode(g, from) THEN g
                               ELSE AddNode(g, from, [node_type |-> "account"])
                     IN  IF HasNode(ga, to) THEN ga
                         ELSE AddNode(ga, to, [node_type |-> "account"])
    IN  AddEdge(g1, from, to,
                [has_count |-> TRUE, count |-> 1, has_total |-> TRUE,
                 total_amount |-> txn.amount,
                 transaction_type |-> txn.transaction_type,
                 has_transactions |-> TRUE, transactions |-> <<TxnRecord(txn)>>])

\* build_graph: one transaction row that has its four required columns
AddRequiredTransaction(g, txn) ==
    LET txn_type == Str(Get(txn, "transaction_type", "user_to_user"))
        c2c  == txn_type = "country_to_country"
        from == IF c2c THEN CountryNodeId(Str(txn.from)) ELSE Str(txn.from)
        to   == IF c2c THEN CountryNodeId(Str(txn.to)) ELSE Str(txn.to)
        g1   == IF c2c THEN g
                ELSE LET ga == IF HasNode(g, from) THEN g
                               ELSE AddNode(g, from, [node_type |-> "account"])
                     IN  IF HasNode(ga, to) THEN ga
                         ELSE AddNode(ga, to, [node_type |-> "account"])
    IN  IF HasEdge(g1, from, to)
        THEN LET i == EdgeIndex(g1, from, to)
                 e == g1.edges[i]
                 e1 == [e EXCEPT !.has_count = TRUE,
                                 !.count = (IF e.has_count THEN e.count ELSE 1) + 1,
                                 !.has_total = TRUE,
                                 !.total_amount = (IF e.has_total THEN e.total_amount ELSE 0)
                                                  + txn.amount,
                                 !.transaction_type = txn_type]
             IN  IF e.has_transactions
                 THEN [g1 EXCEPT !.edges[i] =
                          [e1 EXCEPT !.transactions = Append(@, TxnRecord(txn))]]
                 \* edge_data['transactions'] raises KeyError on a located_in edge
                 ELSE [g1 EXCEPT !.edges[i] = e1, !.error = TRUE]
        ELSE AddEdge(g1, from, to,
                     [has_count |-> TRUE, count |-> 1, has_total |-> TRUE,
                      total_amount |-> txn.amount,
                      transaction_type |-> txn_type,
                      has_transactions |-> TRUE, transactions |-> <<TxnRecord(txn)>>])

\* build_graph: one transaction row; txn['from'], txn['to'], txn['amount'] and
\* txn['timestamp'] raise KeyError when the column is not there
AddTransaction(g, txn) ==
    IF {"from", "to", "amount", "timestamp"} \subseteq DOMAIN txn
    THEN AddRequiredTransaction(g, txn)
    ELSE [g EXCEPT !.error = TRUE]

\* build_graph: add transaction edges, until a row raises
RECURSIVE AddTransactions(_, _)
AddTransactions(g, rows) ==
    IF rows = <<>> \/ g.error THEN g
    ELSE AddTransactions(AddTransaction(g, Head(rows)), Tail(rows))

\* mutant: a dict that keeps its entries when cleared
DictKept(d) == d

\* dict.clear()
DictClear(d) == <<>>

\* self.graph.clear(): every node and every edge of g is removed
GraphClear(g) ==
    [nodes |-> SubSeq(g.nodes, 1, 0), edges |-> SubSeq(g.edges, 1, 0), error |-> FALSE]

\* build_graph, up to the detectors, on the analyzer's graph g0
BuiltGraph(g0, users, txns, order) ==
    LET withUsers == AddUserNodes(GraphClear(g0), users)
    IN  IF withUsers.error THEN withUsers
        ELSE AddTransactions(AddCountryNodes(withUsers, users, order), txns)

\* list(self.graph.neighbors(n)): the other ends of n's edges, oldest first
RECURSIVE NeighborsIn(_, _)
NeighborsIn(edges, n) ==
    IF edges = <<>> THEN <<>>
    ELSE LET e == Head(edges)
             here == IF e.u = n THEN <<e.v>> ELSE IF e.v = n THEN <<e.u>> ELSE <<>>
         IN  here \o NeighborsIn(Tail(edges), n)

Neighbors(g, n) == NeighborsIn(g.edges, n)

Range(seq) == {seq[i] : i \in 1..Len(seq)}

\* self.graph.degree(n): a self-loop counts twice
RECURSIVE DegreeIn(_, _)
DegreeIn(edges, n) ==
    IF edges = <<>> THEN 0
    ELSE LET e == Head(edges)
         IN  (IF e.u = n THEN 1 ELSE 0) + (IF e.v = n THEN 1 ELSE 0)
             + DegreeIn(Tail(edges), n)

Degree(g, n) == DegreeIn(g.edges, n)

\* self.fraud_signals.get(n, [])
SignalsOf(fs, n) == IF n \in DOMAIN fs THEN fs[n] ELSE <<>>

\* self.fraud_signals[n].append(...) for every node n, added[n] being what a
\* detector appends to n
AppendSignals(g, fs, added) ==
    LET touched == DOMAIN fs \cup {n \in NodeIds(g) : added[n] # <<>>}
    IN  [n \in touched |-> SignalsOf(fs, n) \o (IF n \in NodeIds(g) THEN added[n] ELSE <<>>)]

\* the user nodes, in node order, whose attribute attr is value
UsersWith(g, attr, value) ==
    LET hit(nd) == nd.node_type = "user" /\ nd[attr] = value
        sel == SelectSeq(g.nodes, hit)
    IN  [i \in 1..Len(sel) |-> sel[i].id]

\* _detect_shared_devices / _detect_shared_ips: what node n receives
SharedSignal(g, n, attr, type, severity) ==
    LET nd == NodeData(g, n)
        users == UsersWith(g, attr, nd[attr])
        notMe(u) == u # n
    IN  IF nd.node_type = "user" /\ nd[attr] # "" /\ Len(users) > 1
        THEN <<[type |-> type, severity |-> severity,
                related_users |-> SelectSeq(users, notMe)]>>
        ELSE <<>>

\* _detect_shared_devices
DetectSharedDevices(g, fs) ==
    LET added == [n \in NodeIds(g) |->
                     SharedSignal(g, n, "device_id", "shared_device", "high")]
    IN  AppendSignals(g, fs, added)

\* _detect_shared_ips
DetectSharedIps(g, fs) ==
    LET added == [n \in NodeIds(g) |->
                     SharedSignal(g, n, "ip", "shared_ip", "medium")]
    IN  AppendSignals(g, fs, added)

\* outgoing_txns: the transactions of n's edges, neighbour by neighbour
RECURSIVE OutgoingTxns(_, _, _)
OutgoingTxns(g, n, nbrs) ==
    IF nbrs = <<>> THEN <<>>
    ELSE g.edges[EdgeIndex(g, n, Head(nbrs))].transactions
         \o OutgoingTxns(g, n, Tail(nbrs))

\* sorted(outgoing_txns, key=lambda x: x['timestamp']): stable
RECURSIVE InsertByTimestamp(_, _)
InsertByTimestamp(t, sorted) ==
    IF sorted = <<>> THEN <<t>>
    ELSE IF Head(sorted).timestamp <= t.timestamp
         THEN <<Head(sorted)>> \o InsertByTimestamp(t, Tail(sorted))
         ELSE <<t>> \o sorted

RECURSIVE SortByTimestamp(_)
SortByTimestamp(ts) ==
    IF ts = <<>> THEN <<>>
    ELSE InsertByTimestamp(ts[Len(ts)], SortByTimestamp(SubSeq(ts, 1, Len(ts) - 1)))

\* _detect_structuring: what node n receives
StructuringSignal(g, n) ==
    LET outgoing == OutgoingTxns(g, n, Neighbors(g, n))
        small(t) == t.amount < 1000
        small_txns == SelectSeq(SortByTimestamp(outgoing), small)
        first5 == Take(small_txns, 5)
    IN  IF NodeData(g, n).node_type = "account" /\ Len(outgoing) >= 3
           /\ Len(small_txns) >= 3
        THEN <<[type |-> "structuring", severity |-> "high",
                transaction_count |-> Len(small_txns),
                amounts |-> [i \in 1..Len(first5) |-> first5[i].amount]]>>
        ELSE <<>>

\* _detect_structuring
DetectStructuring(g, fs) ==
    LET added == [n \in NodeIds(g) |->
                     StructuringSignal(g, n)]
    IN  AppendSignals(g, fs, added)

\* the nodes reachable from the set S without passing through a node of avoid
RECURSIVE ReachAvoiding(_, _, _)
ReachAvoiding(g, S, avoid) ==
    LET more == {m \in NodeIds(g) \ avoid : \E n \in S : HasEdge(g, n, m)}
    IN  IF more \subseteq S THEN S ELSE ReachAvoiding(g, S \cup more, avoid)

\* n is on a cycle of nx.simple_cycles(self.graph.to_directed()) with
\* len(cycle) >= 3: two different neighbours of n joined by a path that avoids n
OnCycle(g, n) ==
    LET nbrs == Range(Neighbors(g, n)) \ {n}
    IN  \E a \in nbrs : \E b \in nbrs \ {a} : b \in ReachAvoiding(g, {a}, {n})

HasCircular(fs, n) ==
    \E i \in 1..Len(SignalsOf(fs, n)) : SignalsOf(fs, n)[i].type = "circular_flow"

\* the simple paths of g that start at node number i and stay among the nodes
\* numbered above i, grown from the set paths
RECURSIVE SimplePaths(_, _, _)
SimplePaths(g, i, paths) ==
    LET longer == {Append(p, m) : p \in paths, m \in NodeIds(g)} 
        step == {p \in longer : /\ HasEdge(g, p[Len(p) - 1], p[Len(p)])
                                /\ NodeIndex(g, p[Len(p)]) > i
                                /\ \A k \in 1..(Len(p) - 1) : p[k] # p[Len(p)]}
    IN  IF step = {} THEN paths ELSE paths \cup SimplePaths(g, i, step)

\* nx.simple_cycles(self.graph.to_directed()): every directed simple cycle
\* once, as the list of its nodes from the earliest-added one
SimpleCycles(g) ==
    UNION {{p \in SimplePaths(g, i, {<<g.nodes[i].id>>}) : HasEdge(g, p[Len(p)], p[1])}
           : i \in 1..Len(g.nodes)}

\* mutant: a node that already carries any signal is not flagged
RECURSIVE FlagCycleUnlessSignalled(_, _)
FlagCycleUnlessSignalled(fs, cycle) ==
    IF cycle = <<>> THEN fs
    ELSE LET n == Head(cycle)
             flagged == IF n \in DOMAIN fs THEN fs
                        ELSE [m \in DOMAIN fs \cup {n} |->
                                 IF m = n
                                 THEN <<[type |-> "circular_flow", severity |-> "high"]>>
                                 ELSE fs[m]]
         IN  FlagCycleUnlessSignalled(flagged, Tail(cycle))

\* for node in cycle: append a circular_flow signal unless the node has one
RECURSIVE FlagCycle(_, _)
FlagCycle(fs, cycle) ==
    IF cycle = <<>> THEN fs
    ELSE LET n == Head(cycle)
             flagged == IF HasCircular(fs, n) THEN fs
                        ELSE [m \in DOMAIN fs \cup {n} |->
                                 IF m = n
                                 THEN SignalsOf(fs, n)
                                      \o <<[type |-> "circular_flow", severity |-> "high"]>>
                                 ELSE fs[m]]
         IN  FlagCycle(flagged, Tail(cycle))

\* mutant: every cycle through a node flags it again
RECURSIVE FlagCyclesEach(_, _)
FlagCyclesEach(fs, cycles) ==
    IF cycles = {} THEN fs
    ELSE LET cycle == CHOOSE c \in cycles : TRUE
             all == [m \in DOMAIN fs \cup Range(cycle) |->
                        IF m \in Range(cycle)
                        THEN SignalsOf(fs, m)
                             \o <<[type |-> "circular_flow", severity |-> "high"]>>
                        ELSE fs[m]]
         IN  FlagCyclesEach(IF Len(cycle) >= 3 THEN all ELSE fs, cycles \ {cycle})

\* for cycle in cycles: if len(cycle) >= 3, flag its nodes
RECURSIVE FlagCycles(_, _)
FlagCycles(fs, cycles) ==
    IF cycles = {} THEN fs
    ELSE LET cycle == CHOOSE c \in cycles : TRUE
         IN  FlagCycles(IF Len(cycle) >= 3 THEN FlagCycle(fs, cycle) ELSE fs,
                        cycles \ {cycle})

\* _detect_circular_flows: the first cycle through a node flags it, later
\* ones do not (the details text and cycle_length of that cycle are left out)
DetectCircularFlows(g, fs) == FlagCycles(fs, SimpleCycles(g))

\* build_graph: the four detectors, in the order they are called
Detect(g, fs) ==
    DetectCircularFlows(g, DetectStructuring(g, DetectSharedIps(g, DetectSharedDevices(g, fs))))

\* build_graph, lines 123-126: the four detector methods
Detectors ==
    {"_detect_shared_devices", "_detect_shared_ips", "_detect_structuring",
     "_detect_circular_flows"}

\* self.<detector>() on the graph g and the signals fs, cycles being the
\* list nx.simple_cycles gives for g
RunDetector(detector, g, fs, cycles) ==
    CASE detector = "_detect_shared_devices" -> DetectSharedDevices(g, fs)
      [] detector = "_detect_shared_ips" -> DetectSharedIps(g, fs)
      [] detector = "_detect_structuring" -> DetectStructuring(g, fs)
      [] detector = "_detect_circular_flows" -> FlagCycles(fs, cycles)

\* the detectors called one after the other in the given order
RECURSIVE DetectInOrder(_, _, _, _)
DetectInOrder(g, fs, order, cycles) ==
    IF order = <<>> THEN fs
    ELSE DetectInOrder(g, RunDetector(Head(order), g, fs, cycles), Tail(order), cycles)

\* build_graph: fraud_signals.clear() and the detectors, on the analyzer's
\* fraud_signals fs0
DetectAll(g, fs0) == Detect(g, DictClear(fs0))

\* mutant: the weights of shared_ip and circular_flow exchanged
SignalWeightSwapped(signal) ==
    CASE signal.type = "shared_device" -> 30
      [] signal.type = "shared_ip" -> 25
      [] signal.type = "structuring" -> 35
      [] signal.type = "circular_flow" -> 15
      [] OTHER -> 0

\* mutant: a shared device weighted 6.0, enough to be high-risk on its own
SignalWeightDeviceAlone(signal) ==
    CASE signal.type = "shared_device" -> 60
      [] signal.type = "shared_ip" -> 15
      [] signal.type = "structuring" -> 35
      [] signal.type = "circular_flow" -> 25
      [] OTHER -> 0

\* _calculate_risk_scores: the weight of one signal, in tenths
SignalWeight(signal) ==
    CASE signal.type = "shared_device" -> 30
      [] signal.type = "shared_ip" -> 15
      [] signal.type = "structuring" -> 35
      [] signal.type = "circular_flow" -> 25
      [] OTHER -> 0

RECURSIVE SumWeights(_)
SumWeights(signals) ==
    IF signals = <<>> THEN 0 ELSE SignalWeight(Head(signals)) + SumWeights(Tail(signals))

Min(a, b) == IF a < b THEN a ELSE b

\* mutant: the centrality bonus given to every node, signals or not
NodeRiskBonusAlways(g, fs, n) ==
    Min(100, SumWeights(SignalsOf(fs, n)) + (IF Degree(g, n) > 5 THEN 10 ELSE 0))

\* mutant: a node without signals given a negative sentinel score
NodeRiskSentinel(g, fs, n) ==
    IF SignalsOf(fs, n) = <<>> THEN -10
    ELSE Min(100, SumWeights(SignalsOf(fs, n)) + (IF Degree(g, n) > 5 THEN 10 ELSE 0))

\* _calculate_risk_scores: the score of node n, in tenths
NodeRisk(g, fs, n) ==
    IF SignalsOf(fs, n) = <<>> THEN 0
    ELSE Min(100, SumWeights(SignalsOf(fs, n)) + (IF Degree(g, n) > 5 THEN 10 ELSE 0))

\* _calculate_risk_scores: self.risk_scores[node] = ... for every node
AssignRiskScores(g, fs, rs) ==
    [n \in DOMAIN rs \cup NodeIds(g) |->
        IF n \in NodeIds(g) THEN NodeRisk(g, fs, n) ELSE rs[n]]

\* build_graph: risk_scores.clear() and _calculate_risk_scores, on the
\* analyzer's risk_scores rs0
CalculateRiskScores(g, fs, rs0) == AssignRiskScores(g, fs, DictClear(rs0))

\* _generate_results: one entry of 'nodes'; risk_score is round(risk, 2),
\* which leaves a multiple of 0.5 as it is
ResultNode(nd, fs, rs) ==
    LET node_type == IF nd.node_type = "" THEN "account" ELSE nd.node_type
        risk == IF nd.id \in DOMAIN rs THEN rs[nd.id] ELSE 0
    IN  IF node_type = "country"
        THEN [id |-> nd.id, type |-> node_type, risk_score |-> risk,
              signals |-> SignalsOf(fs, nd.id), name |-> nd.country_name,
              country |-> nd.country_name, user_count |-> nd.user_count]
        ELSE [id |-> nd.id, type |-> node_type, risk_score |-> risk,
              signals |-> SignalsOf(fs, nd.id), name |-> nd.user_name,
              device_id |-> nd.device_id, ip |-> nd.ip, country |-> nd.country]

\* _generate_results: one entry of 'edges', seen from node u
ResultEdge(e, u, v) ==
    [source |-> u, target |-> v,
     count |-> IF e.has_count THEN e.count ELSE 1,
     total_amount |-> IF e.has_total THEN e.total_amount ELSE 0,
     transaction_type |-> IF e.transaction_type = "" THEN "user_to_user"
                          ELSE e.transaction_type,
     edge_type |-> IF e.edge_type = "" THEN "transaction" ELSE e.edge_type]

\* self.graph.edges(data=True): node by node, each node's edges to the nodes
\* not yet visited
RECURSIVE EdgesFrom(_, _, _)
EdgesFrom(g, i, nbrs) ==
    IF nbrs = <<>> THEN <<>>
    ELSE LET u == g.nodes[i].id
             v == Head(nbrs)
             seen == {g.nodes[j].id : j \in 1..(i - 1)}
             here == IF v \in seen THEN <<>>
                     ELSE <<ResultEdge(g.edges[EdgeIndex(g, u, v)], u, v)>>
         IN  here \o EdgesFrom(g, i, Tail(nbrs))

RECURSIVE ResultEdges(_, _)
ResultEdges(g, i) ==
    IF i > Len(g.nodes) THEN <<>>
    ELSE EdgesFrom(g, i, Neighbors(g, g.nodes[i].id)) \o ResultEdges(g, i + 1)

\* sorted(..., key=risk_score, reverse=True): stable, highest first
RECURSIVE InsertByRisk(_, _)
InsertByRisk(n, sorted) ==
    IF sorted = <<>> THEN <<n>>
    ELSE IF Head(sorted).risk_score >= n.risk_score
         THEN <<Head(sorted)>> \o InsertByRisk(n, Tail(sorted))
         ELSE <<n>> \o sorted

\* mutant: the high-risk nodes left in node order
SortByRiskNodeOrder(ns) == ns

RECURSIVE SortByRisk(_)
SortByRisk(ns) ==
    IF ns = <<>> THEN <<>>
    ELSE InsertByRisk(ns[Len(ns)], SortByRisk(SubSeq(ns, 1, Len(ns) - 1)))

\* _generate_results
GenerateResults(g, fs, rs) ==
    LET nodes == [i \in 1..Len(g.nodes) |-> ResultNode(g.nodes[i], fs, rs)]
        edges == ResultEdges(g, 1)
        risky(n) == n.risk_score > 50
        isAccount(n) == n.type = "account"
        isUser(n) == n.type = "user"
        high_risk_accounts == SortByRisk(SelectSeq(nodes, risky))
    IN  [nodes |-> nodes, edges |-> edges, high_risk_accounts |-> high_risk_accounts,
         summary |-> [total_accounts |-> Len(SelectSeq(nodes, isAccount)),
                      total_users |-> Len(SelectSeq(nodes, isUser)),
                      total_transactions |-> Len(edges),
                      high_risk_count |-> Len(high_risk_accounts)]]

(***************************************************************************)
(* The datasets handed to build_graph.  Row i of users_df is user "u<i>"   *)
(* with one of the profiles below; transactions_df is a short sequence of  *)
(* rows of TxnPool.  Timestamps are numbered in their string order and     *)
(* amounts are whole dollars.                                              *)
(***************************************************************************)
MaxUsers == 3

MaxTxns == 3

UserIds == [i \in 1..4 |-> CASE i = 1 -> "u1" [] i = 2 -> "u2" [] i = 3 -> "u3"
                             [] OTHER -> "u4"]

UserProfiles ==
    {[device_id |-> "d1", ip |-> "ip1", country |-> "US"],
     [device_id |-> "d1", ip |-> "", country |-> "us"],
     [device_id |-> "", ip |-> "ip1", country |-> ""],
     [device_id |-> NaN, ip |-> NaN, country |-> ""]}

UserRow(i, p) ==
    [user_id |-> UserIds[i], user_name |-> UserIds[i], device_id |-> p.device_id,
     ip |-> p.ip, country |-> p.country]

UsersValues ==
    UNION {{[i \in 1..n |-> UserRow(i, ps[i])] : ps \in [1..n -> UserProfiles]}
           : n \in 0..MaxUsers}

TxnRow(from, to, amount, timestamp, type) ==
    [from |-> from, to |-> to, amount |-> amount, timestamp |-> timestamp,
     device_id |-> "d9", ip |-> "ip9", transaction_type |-> type]

TxnPool ==
    {TxnRow("u1", "u2", 500, 2, "user_to_user"),
     TxnRow("a1", "u1", 300, 1, "user_to_user"),
     TxnRow("a1", "u2", -1500, 3, "user_to_user"),
     TxnRow("u2", "u1", 1500, 7, "user_to_user"),
     TxnRow("us", "US", 2000, 4, "country_to_country"),
     TxnRow("US", "UK", 5000, 5, "country_to_country"),
     TxnRow("u1", "COUNTRY_US", 700, 6, "user_to_user")}

TransactionsValues == UNION {[1..n -> TxnPool] : n \in 0..MaxTxns}

\* the orders in which the set countries may be iterated
IterationOrders(S) ==
    {f \in [1..Cardinality(S) -> S] : \A i, j \in 1..Cardinality(S) : f[i] = f[j] => i = j}

InitGraph ==
    /\ pc = "unused"
    /\ user_id = "user_1"
    /\ personal_data = [tenure_months |-> 18]
    /\ cashflow_metrics = <<>>
    /\ liveness_result = <<>>
    /\ jurisdiction = "US"
    /\ pd_score = <<>>
    /\ feature_impacts = <<>>
    /\ decision = <<>>
    /\ gpc = "idle"
    /\ calls = <<>>
    /\ previous = NoHistory
    /\ users_df \in UsersValues
    /\ transactions_df \in TransactionsValues
    /\ graph = [nodes |-> <<>>, edges |-> <<>>]
    /\ fraud_signals = <<>>
    /\ risk_scores = <<>>
    /\ results = <<>>
    /\ CashflowIdle
    /\ ServiceIdle

\* FraudGraphAnalyzer.build_graph(users, txns) on the analyzer as it stands
Build(users, txns) ==
    \E order \in IterationOrders(CountriesOf(users)) :
      \E g \in {BuiltGraph(graph, users, txns, order)} :
        /\ users_df' = users
        /\ transactions_df' = txns
        /\ previous' = [nodes |-> NodeIds(graph), signalled |-> DOMAIN fraud_signals]
        /\ graph' = [nodes |-> g.nodes, edges |-> g.edges]
        /\ IF g.error
           THEN /\ gpc' = "failed"
                /\ fraud_signals' = DictClear(fraud_signals)
                /\ risk_scores' = DictClear(risk_scores)
                /\ UNCHANGED results
           ELSE /\ gpc' = "built"
                /\ fraud_signals' = DetectAll(graph', fraud_signals)
                /\ risk_scores' = CalculateRiskScores(graph', fraud_signals', risk_scores)
                /\ results' = GenerateResults(graph', fraud_signals', risk_scores')
        /\ UNCHANGED <<calls, scorerVars, cashVars, serviceVars>>

\* build_graph called once on a new analyzer, with the dataset at hand
BuildGraph ==
    /\ gpc = "idle"
    /\ Build(users_df, transactions_df)

NextGraph == BuildGraph

SpecGraph == InitGraph /\ [][NextGraph]_vars

\* get_account_context: the entries of 'transactions', one per neighbour
RECURSIVE ContextTransactions(_, _, _)
ContextTransactions(g, account_id, nbrs) ==
    IF nbrs = <<>> THEN <<>>
    ELSE LET e == g.edges[EdgeIndex(g, account_id, Head(nbrs))]
         IN  <<[to |-> Head(nbrs),
                count |-> IF e.has_count THEN e.count ELSE 1,
                total_amount |-> IF e.has_total THEN e.total_amount ELSE 0]>>
             \o ContextTransactions(g, account_id, Tail(nbrs))

\* FraudGraphAnalyzer.get_account_context on an analyzer holding g, fs, rs:
\* <<>> is the empty dict
AccountContext(g, fs, rs, account_id) ==
    IF ~HasNode(g, account_id) THEN <<>>
    ELSE LET neighbors == Neighbors(g, account_id)
             transactions == ContextTransactions(g, account_id, neighbors)
         IN  [account_id |-> account_id,
              risk_score |-> IF account_id \in DOMAIN rs THEN rs[account_id] ELSE 0,
              signals |-> SignalsOf(fs, account_id),
              transaction_count |-> Len(transactions),
              connected_accounts |-> Len(neighbors),
              transactions |-> Take(transactions, 10)]

\* get_account_context on the analyzer as it stands
GetAccountContext(account_id) == AccountContext(graph, fraud_signals, risk_scores, account_id)

(***************************************************************************)
(* One analyzer serving one analysis after another, as the service's       *)
(* module-level analyzer does: every call brings its own dataset.          *)
(***************************************************************************)
MaxRebuildUsers == 2

MaxRebuildTxns == 1

RebuildProfiles ==
    {[device_id |-> "d1", ip |-> "ip1", country |-> "US"],
     [device_id |-> "", ip |-> "ip1", country |-> ""]}

\* a users table without the user_id column, and one whose user_id cell is
\* missing
MalformedUsersValues ==
    {<<[user_name |-> "u1", device_id |-> "d1", ip |-> "ip1", country |-> "US"]>>,
     <<[user_id |-> NaN, user_name |-> "u1", device_id |-> "d1", ip |-> "ip1",
        country |-> "US"]>>}

\* a transactions table without the from column, and one whose from cell is
\* missing
MalformedTransactionsValues ==
    {<<[to |-> "u2", amount |-> 500, timestamp |-> 2, device_id |-> "d9", ip |-> "ip9",
        transaction_type |-> "user_to_user"]>>,
     <<TxnRow(NaN, "u2", 500, 2, "user_to_user")>>}

RebuildUsersValues ==
    MalformedUsersValues
    \cup UNION {{[i \in 1..n |-> UserRow(i, ps[i])] : ps \in [1..n -> RebuildProfiles]}
               : n \in 0..MaxRebuildUsers}

RebuildTxnPool ==
    {TxnRow("u1", "u2", 500, 2, "user_to_user"),
     TxnRow("a1", "u1", 300, 1, "user_to_user"),
     TxnRow("u1", "COUNTRY_US", 700, 6, "user_to_user")}

RebuildTransactionsValues ==
    MalformedTransactionsValues
    \cup UNION {[1..n -> RebuildTxnPool] : n \in 0..MaxRebuildTxns}

InitRebuild ==
    /\ pc = "unused"
    /\ user_id = "user_1"
    /\ personal_data = [tenure_months |-> 18]
    /\ cashflow_metrics = <<>>
    /\ liveness_result = <<>>
    /\ jurisdiction = "US"
    /\ pd_score = <<>>
    /\ feature_impacts = <<>>
    /\ decision = <<>>
    /\ GraphIdle
    /\ CashflowIdle
    /\ ServiceIdle

\* /api/analyze: build_graph on the shared analyzer with the uploaded dataset
Analyze ==
    \E users \in RebuildUsersValues : \E txns \in RebuildTransactionsValues :
        Build(users, txns)

NextRebuild == Analyze

SpecRebuild == InitRebuild /\ [][NextRebuild]_vars

(***************************************************************************)
(* Properties of FraudGraphAnalyzer.build_graph, checked under SpecGraph.  *)
(* Risk scores are in tenths: 100 is 10.0.                                 *)
(***************************************************************************)
Built == gpc = "built"

SignalsAt(n) == SignalsOf(fraud_signals, n)

CountType(signals, type) ==
    LET ofType(sig) == sig.type = type
    IN  Len(SelectSeq(signals, ofType))

\* the sum the scoring rule describes for node n, before the clamp
WeightedSum(n) ==
    30 * CountType(SignalsAt(n), "shared_device")
    + 15 * CountType(SignalsAt(n), "shared_ip")
    + 35 * CountType(SignalsAt(n), "structuring")
    + 25 * CountType(SignalsAt(n), "circular_flow")
    + (IF Degree(graph, n) > 5 THEN 10 ELSE 0)

Clamp10(x) == IF x < 0 THEN 0 ELSE IF x > 100 THEN 100 ELSE x

\* C8: after a successful build_graph every node of the graph, whatever its
\* type, has a risk score between 0.0 and 10.0
C8_ScoresInRange ==
    Built => \A n \in NodeIds(graph) :
                 /\ n \in DOMAIN risk_scores
                 /\ 0 <= risk_scores[n]
                 /\ risk_scores[n] <= 100

\* a built graph with a user, an account and a country node, one node scored
\* 7.0 and another 0.0
C8_Witness ==
    /\ Built
    /\ \A t \in {"user", "account", "country"} :
          \E i \in 1..Len(graph.nodes) : graph.nodes[i].node_type = t
    /\ \E n \in NodeIds(graph) : risk_scores[n] = 70
    /\ \E n \in NodeIds(graph) : risk_scores[n] = 0

\* C9: after a successful build_graph a node that carries no fraud signal has
\* risk score exactly 0.0, whatever its degree
C9_NoSignalsZero ==
    Built => \A n \in NodeIds(graph) : SignalsAt(n) = <<>> => risk_scores[n] = 0

\* a built graph with a node of degree above 5 that carries no signal
C9_Witness ==
    /\ Built
    /\ \E n \in NodeIds(graph) : SignalsAt(n) = <<>> /\ Degree(graph, n) > 5

\* C10 as stated: every node's risk score is the clamp to [0, 10] of the sum
\* of its signals' weights plus 1.0 if its degree is above 5
C10_ScoreIsClampedSum ==
    Built => \A n \in NodeIds(graph) : risk_scores[n] = Clamp10(WeightedSum(n))

\* C10, amended: the risk score of a node with at least one signal is the
\* clamp to [0, 10] of the sum of its signals' weights plus 1.0 if its degree
\* is above 5, and the risk score of a node without signals is 0.0
C10_ScoreIsClampedSumOfSignalled ==
    Built => \A n \in NodeIds(graph) :
                 risk_scores[n] = IF SignalsAt(n) = <<>> THEN 0
                                  ELSE Clamp10(WeightedSum(n))

\* a built graph where a node with a signal and degree above 5 gets the 1.0,
\* and a user carries both sharing signals
C10_Witness ==
    /\ Built
    /\ \E n \in NodeIds(graph) :
          /\ SignalsAt(n) # <<>>
          /\ Degree(graph, n) > 5
          /\ risk_scores[n] = WeightedSum(n)
    /\ \E n \in NodeIds(graph) :
          /\ CountType(SignalsAt(n), "shared_device") = 1
          /\ CountType(SignalsAt(n), "shared_ip") = 1

\* a cell that holds a value: neither empty nor missing
Present(cell) == cell # "" /\ cell # NaN

SignalsOfType(n, type) ==
    LET ofType(sig) == sig.type = type
    IN  SelectSeq(SignalsAt(n), ofType)

\* the user of row i carries the sharing signal its cell of column attr calls for
SharingAsStated(i, attr, type, severity) ==
    LET cell == users_df[i][attr]
        group == {j \in 1..Len(users_df) : users_df[j][attr] = cell}
        sigs == SignalsOfType(users_df[i].user_id, type)
    IN  IF Present(cell) /\ Cardinality(group) > 1
        THEN /\ Len(sigs) = 1
             /\ sigs[1].severity = severity
             /\ Len(sigs[1].related_users) = Cardinality(group) - 1
             /\ Range(sigs[1].related_users) = {users_df[j].user_id : j \in group \ {i}}
        ELSE sigs = <<>>

\* C11: each of the n > 1 users sharing a device_id carries exactly one
\* shared_device signal, severity high, related to the other n-1 users, and
\* likewise for ip with shared_ip, severity medium; a user whose device_id
\* (ip) is empty, missing or unique carries no shared_device (shared_ip) signal
C11_SharingSignals ==
    Built => \A i \in 1..Len(users_df) :
                 /\ SharingAsStated(i, "device_id", "shared_device", "high")
                 /\ SharingAsStated(i, "ip", "shared_ip", "medium")

\* the nodes a transaction row runs from and to
TxnFrom(txn) ==
    IF txn.transaction_type = "country_to_country"
    THEN CountryNodeId(Str(txn.from)) ELSE Str(txn.from)

TxnTo(txn) ==
    IF txn.transaction_type = "country_to_country"
    THEN CountryNodeId(Str(txn.to)) ELSE Str(txn.to)

\* the input transactions between a and b, in either direction, in input order
TxnsBetween(a, b) ==
    LET between(txn) == \/ TxnFrom(txn) = a /\ TxnTo(txn) = b
                        \/ TxnFrom(txn) = b /\ TxnTo(txn) = a
    IN  SelectSeq(transactions_df, between)

RECURSIVE SumAmounts(_)
SumAmounts(txns) ==
    IF txns = <<>> THEN 0 ELSE Head(txns).amount + SumAmounts(Tail(txns))

\* C12: after a successful build_graph there is at most one edge per unordered
\* pair of nodes, and the edge of a pair with k >= 1 input transactions has
\* count k, total_amount their sum and the k transactions in input order
C12_OneEdgePerPair ==
    Built =>
        /\ \A i, j \in 1..Len(graph.edges) :
              Joins(graph.edges[i], graph.edges[j].u, graph.edges[j].v) => i = j
        /\ \A a, b \in NodeIds(graph) :
              LET txns == TxnsBetween(a, b)
              IN  Len(txns) >= 1 =>
                    /\ HasEdge(graph, a, b)
                    /\ LET e == graph.edges[EdgeIndex(graph, a, b)]
                       IN  /\ e.has_count /\ e.count = Len(txns)
                           /\ e.has_total /\ e.total_amount = SumAmounts(txns)
                           /\ e.has_transactions
                           /\ e.transactions = [i \in 1..Len(txns) |-> TxnRecord(txns[i])]

\* a built graph where one pair has transactions in both directions on one
\* edge and another edge was made by a single transaction
C12_Witness ==
    /\ Built
    /\ \E i, j \in 1..Len(transactions_df) :
          /\ i < j
          /\ TxnFrom(transactions_df[i]) = TxnTo(transactions_df[j])
          /\ TxnTo(transactions_df[i]) = TxnFrom(transactions_df[j])
          /\ TxnFrom(transactions_df[i]) # TxnTo(transactions_df[i])
    /\ \E i \in 1..Len(graph.edges) : graph.edges[i].has_count /\ graph.edges[i].count = 2
    /\ \E i \in 1..Len(graph.edges) : graph.edges[i].has_count /\ graph.edges[i].count = 1

\* the pairs {a, b} that close a cycle of three nodes n-a-b-n
TrianglesAt(n) ==
    {pair \in SUBSET (NodeIds(graph) \ {n}) :
        /\ Cardinality(pair) = 2
        /\ \A a \in pair : HasEdge(graph, n, a)
        /\ \E a, b \in pair : a # b /\ HasEdge(graph, a, b)}

\* C13: after a successful build_graph every node on a cycle of three nodes
\* carries exactly one circular_flow signal, and no node carries more than one
C13_OneCircularFlow ==
    Built => \A n \in NodeIds(graph) :
                 /\ TrianglesAt(n) # {} => CountType(SignalsAt(n), "circular_flow") = 1
                 /\ CountType(SignalsAt(n), "circular_flow") <= 1

\* a built graph with a node on two cycles of three nodes, and a node on none
C13_Witness ==
    /\ Built
    /\ \E n \in NodeIds(graph) : Cardinality(TrianglesAt(n)) >= 2
    /\ \E n \in NodeIds(graph) : TrianglesAt(n) = {} /\ SignalsAt(n) = <<>>

\* the ids get_account_context is asked about
ProbeIds ==
    {"u1", "u2", "u3", "a1", "a2", "nan", "COUNTRY_US", "COUNTRY_UK", "COUNTRY_NAN"}

\* the analyzer holds what a new analyzer holds after build_graph(users_df,
\* transactions_df) with the countries iterated in the given order
HoldsFreshBuild(order) ==
    LET g == BuiltGraph(EmptyGraph, users_df, transactions_df, order)
        fresh == [nodes |-> g.nodes, edges |-> g.edges]
        fs == IF g.error THEN <<>> ELSE DetectAll(fresh, <<>>)
        rs == IF g.error THEN <<>> ELSE CalculateRiskScores(fresh, fs, <<>>)
    IN  /\ graph = fresh
        /\ fraud_signals = fs
        /\ risk_scores = rs
        /\ \A id \in ProbeIds : GetAccountContext(id) = AccountContext(fresh, fs, rs, id)

\* C14: after any sequence of build_graph calls on one analyzer, its nodes,
\* edges, signals and risk scores, and the answers of get_account_context, are
\* those of a new analyzer after the last call's input alone
C14_RebuildIsFresh ==
    gpc # "idle" => \E order \in IterationOrders(CountriesOf(users_df)) :
                        HoldsFreshBuild(order)

\* a build that began on an analyzer holding nodes and signals of an earlier
\* dataset: a node of the earlier one is gone, and a node that carried a signal
\* is still there without any
C14_Witness ==
    /\ Built
    /\ \E n \in previous.nodes : ~HasNode(graph, n)
    /\ \E n \in previous.signalled : HasNode(graph, n) /\ SignalsAt(n) = <<>>

\* the cell of a required column is not there, or holds no value (the amount
\* and timestamp cells of the datasets are numbers)
Lacks(row, key) ==
    \/ key \notin DOMAIN row
    \/ key \in {"user_id", "from", "to"} /\ row[key] = NaN

\* some input record lacks a required field
LacksRequiredField ==
    \/ \E i \in 1..Len(users_df) : Lacks(users_df[i], "user_id")
    \/ \E i \in 1..Len(transactions_df) :
          \E key \in {"from", "to", "amount", "timestamp"} : Lacks(transactions_df[i], key)

\* C15: a build_graph whose input has a record lacking a required field fails
\* as a whole, and afterwards get_account_context shows no node, edge, signal or
\* score of that input
C15_MalformedFailsWhole ==
    (gpc # "idle" /\ LacksRequiredField) =>
        /\ gpc = "failed"
        /\ \A id \in ProbeIds : GetAccountContext(id) = <<>>

(***************************************************************************)
(* Two build_graph calls in flight on the one analyzer.  A call advances   *)
(* block by block of build_graph; between blocks the other call may run.   *)
(***************************************************************************)
MaxCallers == 2

Callers == 1..MaxCallers

ParallelDatasets ==
    {[users |-> <<UserRow(1, [device_id |-> "d1", ip |-> "ip1", country |-> "US"]),
                  UserRow(2, [device_id |-> "d1", ip |-> "", country |-> "US"])>>,
      txns |-> <<TxnRow("u1", "u2", 500, 2, "user_to_user")>>],
     [users |-> <<>>,
      txns |-> <<TxnRow("a1", "u1", 300, 1, "user_to_user"),
                 TxnRow("a1", "u1", 300, 1, "user_to_user"),
                 TxnRow("a1", "u1", 300, 1, "user_to_user")>>],
     [users |-> <<UserRow(1, [device_id |-> "", ip |-> "ip1", country |-> "US"])>>,
      txns |-> <<TxnRow("u1", "COUNTRY_US", 700, 6, "user_to_user")>>]}

InitParallel ==
    /\ pc = "unused"
    /\ user_id = "user_1"
    /\ personal_data = [tenure_months |-> 18]
    /\ cashflow_metrics = <<>>
    /\ liveness_result = <<>>
    /\ jurisdiction = "US"
    /\ pd_score = <<>>
    /\ feature_impacts = <<>>
    /\ decision = <<>>
    /\ gpc = "idle"
    /\ previous = NoHistory
    /\ users_df = <<>>
    /\ transactions_df = <<>>
    /\ graph = [nodes |-> <<>>, edges |-> <<>>]
    /\ fraud_signals = <<>>
    /\ risk_scores = <<>>
    /\ results = <<>>
    /\ CashflowIdle
    /\ ServiceIdle
    /\ calls \in [Callers -> {[pc |-> "clear", users |-> d.users, txns |-> d.txns,
                               ret |-> <<>>] : d \in ParallelDatasets}]
    /\ \A p, q \in Callers : p # q => calls[p] # calls[q]

Raising(g) == [nodes |-> g.nodes, edges |-> g.edges, error |-> FALSE]

Held(g) == [nodes |-> g.nodes, edges |-> g.edges]

ParallelFrame ==
    UNCHANGED <<gpc, previous, users_df, transactions_df, results, scorerVars, cashVars,
                serviceVars>>

\* build_graph lines 20-22
ParClear(p) ==
    /\ calls[p].pc = "clear"
    /\ graph' = Held(GraphClear(graph))
    /\ risk_scores' = DictClear(risk_scores)
    /\ fraud_signals' = DictClear(fraud_signals)
    /\ calls' = [calls EXCEPT ![p].pc = "users"]
    /\ ParallelFrame

\* build_graph lines 25-43
ParUsers(p) ==
    /\ calls[p].pc = "users"
    /\ \E g \in {AddUserNodes(Raising(graph), calls[p].users)} :
          /\ graph' = Held(g)
          /\ calls' = [calls EXCEPT ![p].pc = IF g.error THEN "raised" ELSE "countries"]
    /\ UNCHANGED <<fraud_signals, risk_scores>>
    /\ ParallelFrame

\* build_graph lines 46-67
ParCountries(p) ==
    /\ calls[p].pc = "countries"
    /\ \E order \in IterationOrders(CountriesOf(calls[p].users)) :
          graph' = Held(AddCountryNodes(Raising(graph), calls[p].users, order))
    /\ calls' = [calls EXCEPT ![p].pc = "transactions"]
    /\ UNCHANGED <<fraud_signals, risk_scores>>
    /\ ParallelFrame

\* build_graph lines 70-120
ParTransactions(p) ==
    /\ calls[p].pc = "transactions"
    /\ \E g \in {AddTransactions(Raising(graph), calls[p].txns)} :
          /\ graph' = Held(g)
          /\ calls' = [calls EXCEPT ![p].pc = IF g.error THEN "raised" ELSE "detect"]
    /\ UNCHANGED <<fraud_signals, risk_scores>>
    /\ ParallelFrame

\* build_graph lines 123-126
ParDetect(p) ==
    /\ calls[p].pc = "detect"
    /\ fraud_signals' = Detect(graph, fraud_signals)
    /\ calls' = [calls EXCEPT ![p].pc = "score"]
    /\ UNCHANGED <<graph, risk_scores>>
    /\ ParallelFrame

\* build_graph line 127
ParScore(p) ==
    /\ calls[p].pc = "score"
    /\ risk_scores' = AssignRiskScores(graph, fraud_signals, risk_scores)
    /\ calls' = [calls EXCEPT ![p].pc = "results"]
    /\ UNCHANGED <<graph, fraud_signals>>
    /\ ParallelFrame

\* build_graph line 129
ParResults(p) ==
    /\ calls[p].pc = "results"
    /\ calls' = [calls EXCEPT ![p].pc = "done",
                              ![p].ret = GenerateResults(graph, fraud_signals, risk_scores)]
    /\ UNCHANGED <<graph, fraud_signals, risk_scores>>
    /\ ParallelFrame

NextParallel ==
    \E p \in Callers :
        \/ ParClear(p)
        \/ ParUsers(p)
        \/ ParCountries(p)
        \/ ParTransactions(p)
        \/ ParDetect(p)
        \/ ParScore(p)
        \/ ParResults(p)

SpecParallel == InitParallel /\ [][NextParallel]_vars

\* call p ended as build_graph ends when it runs alone on its dataset, with the
\* countries iterated in the given order
EndedAsAlone(p, order) ==
    LET g == BuiltGraph(EmptyGraph, calls[p].users, calls[p].txns, order)
        fs == DetectAll(Held(g), <<>>)
        rs == CalculateRiskScores(Held(g), fs, <<>>)
    IN  IF g.error THEN calls[p].pc = "raised"
        ELSE calls[p].pc = "done" /\ calls[p].ret = GenerateResults(Held(g), fs, rs)

\* C16: two build_graph calls run in parallel on the shared analyzer return,
\* under every interleaving, what each returns when run alone
C16_ParallelAsAlone ==
    \A p \in Callers :
        calls[p].pc \in {"done", "raised"} =>
            \E order \in IterationOrders(CountriesOf(calls[p].users)) : EndedAsAlone(p, order)

(***************************************************************************)
(* CashflowAnalyzer (backend/app/cashflow_analyzer.py).                    *)
(*                                                                         *)
(* Amounts are counted in thousandths of a currency unit, timestamps in    *)
(* days of one non-leap year.  Inf stands for the float +inf, which the    *)
(* amount field of BankTransaction admits; it is held as the largest       *)
(* machine integer and every operation on floats treats it apart.          *)
(***************************************************************************)
None == "None"

Inf == 2147483647

\* natural numbers beyond the machine word: base-10000 limbs, lowest first
BigBase == 100 * 100

RECURSIVE Carry(_, _)
Carry(s, c) ==
    IF s = <<>>
    THEN IF c = 0 THEN <<>> ELSE <<c % BigBase>> \o Carry(<<>>, c \div BigBase)
    ELSE <<(Head(s) + c) % BigBase>> \o Carry(Tail(s), (Head(s) + c) \div BigBase)

Big(n) == Carry(<<>>, n)

Limb(x, i) == IF i <= Len(x) THEN x[i] ELSE 0

Longest(x, y) == IF Len(x) < Len(y) THEN Len(y) ELSE Len(x)

BigAdd(x, y) == Carry([i \in 1..Longest(x, y) |-> Limb(x, i) + Limb(y, i)], 0)

\* x * d for 0 <= d < BigBase
BigScale(x, d) == Carry([i \in 1..Len(x) |-> x[i] * d], 0)

RECURSIVE BigMul(_, _)
BigMul(x, y) ==
    IF y = <<>> THEN <<>>
    ELSE BigAdd(BigScale(x, Head(y)), <<0>> \o BigMul(x, Tail(y)))

RECURSIVE BigLeFrom(_, _, _)
BigLeFrom(x, y, i) ==
    IF i = 0 THEN TRUE
    ELSE IF Limb(x, i) # Limb(y, i) THEN Limb(x, i) < Limb(y, i)
    ELSE BigLeFrom(x, y, i - 1)

BigLe(x, y) == BigLeFrom(x, y, Longest(x, y))

BigEq(x, y) == BigLe(x, y) /\ BigLe(y, x)

\* the largest k in lo..hi with (2k-1) * den <= 2 * num, given that lo is one
RECURSIVE NearestFrom(_, _, _, _)
NearestFrom(lo, hi, num, den) ==
    IF lo = hi THEN lo
    ELSE LET mid == (lo + hi + 1) \div 2
         IN  IF BigLe(BigScale(den, 2 * mid - 1), BigScale(num, 2))
             THEN NearestFrom(mid, hi, num, den)
             ELSE NearestFrom(lo, mid - 1, num, den)

\* round(min(num / den, cap)): the integers nearest to the quotient of two
\* naturals, at most cap.  round() decides a quotient halfway between two
\* integers by the binary value of the double, so both neighbours are possible.
RoundQuotient(num, den, cap) ==
    LET k == NearestFrom(0, cap, num, den)
    IN  IF k > 0 /\ BigEq(BigScale(den, 2 * k - 1), BigScale(num, 2)) THEN {k - 1, k}
        ELSE {k}

\* (2k-1)^2 * den <= 4 * num
RootAtLeast(k, num, den) ==
    BigLe(BigMul(BigMul(Big(2 * k - 1), Big(2 * k - 1)), den), BigScale(num, 4))

\* the largest k in lo..hi with RootAtLeast(k, num, den), given that lo is one
RECURSIVE NearestRootFrom(_, _, _, _)
NearestRootFrom(lo, hi, num, den) ==
    IF lo = hi THEN lo
    ELSE LET mid == (lo + hi + 1) \div 2
         IN  IF RootAtLeast(mid, num, den)
             THEN NearestRootFrom(mid, hi, num, den)
             ELSE NearestRootFrom(lo, mid - 1, num, den)

\* round(min(sqrt(num / den), cap)), as RoundQuotient
RoundRoot(num, den, cap) ==
    LET k == NearestRootFrom(0, cap, num, den)
    IN  IF k > 0 /\ BigEq(BigMul(BigMul(Big(2 * k - 1), Big(2 * k - 1)), den),
                          BigScale(num, 4))
        THEN {k - 1, k}
        ELSE {k}

\* models.py BankTransaction: the fields analyze reads
BankTransaction(timestamp, amount, transaction_type, merchant, mcc) ==
    [timestamp |-> timestamp, amount |-> amount, transaction_type |-> transaction_type,
     merchant |-> merchant, counterparty |-> None, mcc |-> mcc]

ESSENTIAL_MCC_CODES ==
    {"5411", "5412", "5422", "5541", "5542", "5983", "5912", "5976",
     "4814", "4816", "4899", "6300", "6513"}

INCOME_KEYWORDS == {"salary", "payroll", "deposit", "direct dep", "wage", "income"}

RECURRING_KEYWORDS == {"loan", "mortgage", "rent", "payment", "subscription", "auto pay"}

ESSENTIAL_KEYWORDS ==
    {"grocery", "gas", "fuel", "pharmacy", "medical", "utility", "electric", "water",
     "rent", "mortgage", "insurance", "phone", "internet"}

NSF_KEYWORDS == {"nsf", "overdraft", "insufficient", "returned payment"}

\* the keywords of the lists above, and 'late', that occur in the lower case of
\* each merchant name the model uses
Occurring(merchant) ==
    CASE merchant = "ACME PAYROLL" -> {"payroll"}
      [] merchant = "Rent Payment" -> {"rent", "payment"}
      [] merchant = "Late Fee"     -> {"late"}
      [] merchant = "NSF Fee"      -> {"nsf"}
      [] OTHER                     -> {}

\* keyword in f"{txn.merchant or ''} {txn.counterparty or ''}".lower(); the
\* counterparty is None throughout
InText(keyword, txn) == txn.merchant # None /\ keyword \in Occurring(txn.merchant)

\* a float compared with a number
Exceeds(amount, n) == amount = Inf \/ amount > n

Below(amount, n) == amount # Inf /\ amount < n

\* _is_income_transaction
IsIncomeTransaction(txn) ==
    \/ txn.transaction_type = "income"
    \/ \E keyword \in INCOME_KEYWORDS : InText(keyword, txn)

\* _is_essential_spending
IsEssentialSpending(txn) ==
    \/ txn.mcc # None /\ txn.mcc \in ESSENTIAL_MCC_CODES
    \/ \E keyword \in ESSENTIAL_KEYWORDS : InText(keyword, txn)

\* _is_recurring_payment
IsRecurringPayment(txn) == \E keyword \in RECURRING_KEYWORDS : InText(keyword, txn)

\* timestamp.strftime('%Y-%m'): the month of a day of the year
MonthKey(day) ==
    IF day <= 31 THEN 1 ELSE IF day <= 59 THEN 2 ELSE IF day <= 90 THEN 3 ELSE 4

\* x + y on floats
Plus(x, y) == IF x = Inf \/ y = Inf THEN Inf ELSE x + y

\* abs(txn.amount)
AbsAmount(amount) == IF amount = Inf THEN Inf ELSE Abs(amount)

\* monthly[month_key] += amount over txns: the months in order of first
\* appearance, and the dict
RECURSIVE MonthsOf(_)
MonthsOf(txns) ==
    IF txns = <<>> THEN <<>>
    ELSE LET rest == MonthsOf(SubSeq(txns, 1, Len(txns) - 1))
             key == MonthKey(txns[Len(txns)].timestamp)
         IN  IF key \in Range(rest) THEN rest ELSE Append(rest, key)

RECURSIVE MonthTotal(_, _)
MonthTotal(txns, key) ==
    IF txns = <<>> THEN 0
    ELSE IF MonthKey(Head(txns).timestamp) = key
         THEN Plus(AbsAmount(Head(txns).amount), MonthTotal(Tail(txns), key))
         ELSE MonthTotal(Tail(txns), key)

\* list(monthly.values())
MonthlyValues(txns) ==
    LET months == MonthsOf(txns)
    IN  [i \in 1..Len(months) |-> MonthTotal(txns, months[i])]

\* x <= y on floats
LeqF(x, y) == y = Inf \/ (x # Inf /\ x <= y)

RECURSIVE InsertValue(_, _)
InsertValue(v, sorted) ==
    IF sorted = <<>> THEN <<v>>
    ELSE IF LeqF(Head(sorted), v) THEN <<Head(sorted)>> \o InsertValue(v, Tail(sorted))
    ELSE <<v>> \o sorted

RECURSIVE SortValues(_)
SortValues(values) ==
    IF values = <<>> THEN <<>>
    ELSE InsertValue(values[Len(values)], SortValues(SubSeq(values, 1, Len(values) - 1)))

\* twice statistics.median(values), values not empty
TwiceMedian(values) ==
    LET data == SortValues(values)
        n == Len(data)
    IN  IF n % 2 = 1 THEN Plus(data[(n + 1) \div 2], data[(n + 1) \div 2])
        ELSE Plus(data[n \div 2], data[n \div 2 + 1])

\* round(median, 2), in hundredths, of a median given doubled in thousandths
Round2(twice) ==
    IF twice = Inf THEN {Inf}
    ELSE IF twice % 20 = 10 THEN {twice \div 20, twice \div 20 + 1}
    ELSE IF twice % 20 < 10 THEN {twice \div 20}
    ELSE {twice \div 20 + 1}

\* the sum of (x - r)^2 over the r of rest
RECURSIVE GapsFrom(_, _)
GapsFrom(x, rest) ==
    IF rest = <<>> THEN Big(0)
    ELSE BigAdd(BigMul(Big(Abs(x - Head(rest))), Big(Abs(x - Head(rest)))),
                GapsFrom(x, Tail(rest)))

\* n * sum(x^2) - sum(x)^2, which is the sum of (x_i - x_j)^2 over i < j
RECURSIVE SquaredGaps(_)
SquaredGaps(values) ==
    IF values = <<>> THEN Big(0)
    ELSE BigAdd(GapsFrom(Head(values), Tail(values)), SquaredGaps(Tail(values)))

\* mutant: the coefficient of variation capped at 3.0
RoundedCvCapThree(values, twice) ==
    LET n == Len(values)
    IN  RoundRoot(BigMul(Big(4000000), SquaredGaps(values)),
                  BigMul(Big(n * (n - 1)), BigMul(Big(twice), Big(twice))),
                  3000)

\* round(min(statistics.stdev(values) / median, 2.0), 3) in thousandths, for
\* finite values and a median given doubled:
\*   (stdev / median)^2 = 4 * SquaredGaps / (n * (n-1) * twice^2)
RoundedCv(values, twice) ==
    LET n == Len(values)
    IN  RoundRoot(BigMul(Big(4000000), SquaredGaps(values)),
                  BigMul(Big(n * (n - 1)), BigMul(Big(twice), Big(twice))),
                  2000)

\* the income transactions _compute_income_metrics groups by month
IncomeTxns(txns) ==
    LET clear(t) == Exceeds(t.amount, 0) /\ IsIncomeTransaction(t)
        positive(t) == Exceeds(t.amount, 100000)
    IN  IF SelectSeq(txns, clear) # <<>> THEN SelectSeq(txns, clear)
        ELSE SelectSeq(txns, positive)

\* mutant: high variability reported whenever the deviation is not computed
ComputeIncomeMetricsHighVariability(txns) ==
    LET income_values == MonthlyValues(IncomeTxns(txns))
        twice == TwiceMedian(income_values)
    IN  IF income_values = <<>>
        THEN {[median_monthly_income |-> 0, income_cv |-> 1000]}
        ELSE IF Len(income_values) > 1 /\ Exceeds(twice, 0)
        THEN IF Inf \in Range(income_values)
             THEN {[error |-> "AttributeError"]}
             ELSE {[median_monthly_income |-> median, income_cv |-> cv] :
                     median \in Round2(twice), cv \in RoundedCv(income_values, twice)}
        ELSE {[median_monthly_income |-> median, income_cv |-> 1000] :
                 median \in Round2(twice)}

\* _compute_income_metrics on self.transactions = txns: the dicts it can return,
\* [median_monthly_income in hundredths, income_cv in thousandths], or the
\* exception statistics.stdev raises on an infinite value
ComputeIncomeMetrics(txns) ==
    LET income_values == MonthlyValues(IncomeTxns(txns))
        twice == TwiceMedian(income_values)
    IN  IF income_values = <<>>
        THEN {[median_monthly_income |-> 0, income_cv |-> 1000]}
        ELSE IF Len(income_values) > 1 /\ Exceeds(twice, 0)
        THEN IF Inf \in Range(income_values)
             THEN {[error |-> "AttributeError"]}
             ELSE {[median_monthly_income |-> median, income_cv |-> cv] :
                     median \in Round2(twice), cv \in RoundedCv(income_values, twice)}
        ELSE {[median_monthly_income |-> median, income_cv |-> 0] :
                 median \in Round2(twice)}

\* _monthly_aggregate
MonthlyAggregate(txns) == IF txns = <<>> THEN <<0>> ELSE MonthlyValues(txns)

\* _compute_spending_metrics on self.transactions = txns, medians in hundredths
ComputeSpendingMetrics(txns) ==
    LET essential(t) == Below(t.amount, 0) /\ IsEssentialSpending(t)
        discretionary(t) == Below(t.amount, 0) /\ ~IsEssentialSpending(t)
        monthly_essential == MonthlyAggregate(SelectSeq(txns, essential))
        monthly_discretionary == MonthlyAggregate(SelectSeq(txns, discretionary))
    IN  {[essential_median |-> e, discretionary_median |-> d] :
            e \in Round2(TwiceMedian(monthly_essential)),
            d \in Round2(TwiceMedian(monthly_discretionary))}

RECURSIVE SumAbsAmounts(_)
SumAbsAmounts(txns) ==
    IF txns = <<>> THEN 0 ELSE Abs(Head(txns).amount) + SumAbsAmounts(Tail(txns))

\* round(min(buffer_days, 90), 1) in tenths, from the medians in hundredths:
\* net_monthly * 0.5 / (monthly_spend / 30) = 15 * net_monthly / monthly_spend
BufferDays(monthly_income, monthly_spend) ==
    IF monthly_spend > 0
    THEN IF monthly_income = Inf THEN {900}
         ELSE IF monthly_income - monthly_spend > 0
         THEN RoundQuotient(BigMul(Big(150), Big(monthly_income - monthly_spend)),
                            Big(monthly_spend), 900)
         ELSE {0}
    ELSE {300}

\* round(min(payment_burden, 1.0), 3) in thousandths; _compute_recurring_payments
\* gives total / max(date_range / 30, 1), total in thousandths
PaymentBurden(txns, monthly_income) ==
    LET recurring(t) == Below(t.amount, 0) /\ IsRecurringPayment(t)
        total == SumAbsAmounts(SelectSeq(txns, recurring))
        date_range == txns[Len(txns)].timestamp - txns[1].timestamp
        days == IF date_range > 30 THEN date_range ELSE 30
    IN  IF monthly_income = Inf THEN {0}
        ELSE IF monthly_income > 0
        THEN RoundQuotient(BigMul(Big(3000), Big(total)),
                           BigMul(Big(days), Big(monthly_income)), 1000)
        ELSE {1000}

\* round(_compute_on_time_ratio(), 3) in thousandths
OnTimeRatio(txns) ==
    LET payment(t) == Below(t.amount, 0)
        late(t) == InText("late", t)
        recurring(t) == IsRecurringPayment(t)
        payment_txns == SelectSeq(txns, payment)
        late_fees == Len(SelectSeq(payment_txns, late))
        counted == Len(SelectSeq(payment_txns, recurring))
        total_payments == IF counted > 1 THEN counted ELSE 1
    IN  IF payment_txns = <<>> THEN {1000}
        ELSE IF late_fees >= total_payments THEN {0}
        ELSE RoundQuotient(Big(1000 * (total_payments - late_fees)),
                           Big(total_payments), 1000)

\* _count_nsf_events
CountNsfEvents(txns) ==
    LET nsf(t) == \E keyword \in NSF_KEYWORDS : InText(keyword, t)
    IN  Len(SelectSeq(txns, nsf))

\* _compute_health_metrics
ComputeHealthMetrics(txns, income_metrics, spending_metrics) ==
    LET monthly_income == income_metrics.median_monthly_income
        monthly_spend == spending_metrics.essential_median
                         + spending_metrics.discretionary_median
    IN  {[buffer_days |-> b, payment_burden |-> p, on_time_ratio |-> o,
          nsf_count |-> CountNsfEvents(txns)] :
            b \in BufferDays(monthly_income, monthly_spend),
            p \in PaymentBurden(txns, monthly_income),
            o \in OnTimeRatio(txns)}

\* models.py CashflowMetrics: the field constraints
ValidMetrics(m) ==
    /\ m.income_cv >= 0
    /\ m.essential_spend_median >= 0
    /\ m.discretionary_spend_median >= 0
    /\ m.buffer_days >= 0
    /\ m.payment_burden >= 0 /\ m.payment_burden <= 1000
    /\ m.on_time_ratio >= 0 /\ m.on_time_ratio <= 1000
    /\ m.nsf_count_90d >= 0
    /\ m.transaction_count > 0

CashflowMetrics(transactions, income_metrics, spending_metrics, health_metrics) ==
    [net_income_median |-> income_metrics.median_monthly_income,
     income_cv |-> income_metrics.income_cv,
     essential_spend_median |-> spending_metrics.essential_median,
     discretionary_spend_median |-> spending_metrics.discretionary_median,
     buffer_days |-> health_metrics.buffer_days,
     payment_burden |-> health_metrics.payment_burden,
     on_time_ratio |-> health_metrics.on_time_ratio,
     nsf_count_90d |-> health_metrics.nsf_count,
     transaction_count |-> Len(transactions)]

\* analyze from line 48 on, transactions not empty: every
\* [self_transactions, returned, raised] the call can end with
AnalyzeStored(transactions) ==
    LET sorted == SortByTimestamp(transactions)
        failed(e) == [self_transactions |-> sorted, returned |-> <<>>, raised |-> e]
        built(i, s, h) ==
            LET m == CashflowMetrics(transactions, i, s, h)
            IN  IF ValidMetrics(m)
                THEN [self_transactions |-> sorted, returned |-> <<m>>, raised |-> ""]
                ELSE failed("ValidationError")
    IN  UNION {IF "error" \in DOMAIN i THEN {failed(i.error)}
               ELSE UNION {{built(i, s, h) : h \in ComputeHealthMetrics(sorted, i, s)} :
                             s \in ComputeSpendingMetrics(sorted)} :
               i \in ComputeIncomeMetrics(sorted)}

\* mutant: the sorted input stored before the emptiness test
AnalyzeOutcomesStoringFirst(transactions, stored) ==
    IF transactions = <<>>
    THEN {[self_transactions |-> SortByTimestamp(transactions), returned |-> <<>>,
           raised |-> "ValueError"]}
    ELSE AnalyzeStored(transactions)

\* CashflowAnalyzer.analyze(transactions) on an analyzer holding stored
AnalyzeOutcomes(transactions, stored) ==
    IF transactions = <<>>
    THEN {[self_transactions |-> stored, returned |-> <<>>, raised |-> "ValueError"]}
    ELSE AnalyzeStored(transactions)

(***************************************************************************)
(* Cashflow inputs.                                                        *)
(***************************************************************************)
MaxBankTxns == 3

\* the transactions a list is drawn from, not in order of time
BankPool ==
    <<BankTransaction(64, 3000000, "income", "ACME PAYROLL", None),
      BankTransaction(1, -1200000, "expense", "Rent Payment", None),
      BankTransaction(36, 3000000, "income", "ACME PAYROLL", None),
      BankTransaction(45, -35000, "fee", "Late Fee", None),
      BankTransaction(5, 3000000, "income", "ACME PAYROLL", None),
      BankTransaction(50, 1500000, "income", None, None),
      BankTransaction(40, -400000, "expense", "Corner Cafe", None),
      BankTransaction(10, 4, "income", None, None),
      BankTransaction(66, -200000, "expense", None, "5411"),
      BankTransaction(12, 150000, "transfer", None, None),
      BankTransaction(20, -30000, "fee", "NSF Fee", None),
      BankTransaction(70, Inf, "income", None, None),
      BankTransaction(38, 4, "income", None, None)>>

\* the rows of BankPool at the indices of S, lowest index first
RECURSIVE ListOf(_)
ListOf(S) ==
    IF S = {} THEN <<>>
    ELSE LET i == CHOOSE i \in S : \A j \in S : i <= j
         IN  <<BankPool[i]>> \o ListOf(S \ {i})

TransactionLists ==
    {ListOf(S) : S \in {S \in SUBSET (1..Len(BankPool)) : Cardinality(S) <= MaxBankTxns}}

\* what analyze computes from each list that is not empty
AnalyzeTable == [l \in TransactionLists \ {<<>>} |-> AnalyzeOutcomes(l, <<>>)]

InitCashflow ==
    /\ pc = "unused"
    /\ user_id = "user_1"
    /\ personal_data = [tenure_months |-> 18]
    /\ cashflow_metrics = <<>>
    /\ liveness_result = <<>>
    /\ jurisdiction = "US"
    /\ pd_score = <<>>
    /\ feature_impacts = <<>>
    /\ decision = <<>>
    /\ GraphIdle
    /\ CashflowIdle
    /\ ServiceIdle

\* CashflowAnalyzer.analyze on the analyzer as it stands
CashflowAnalyze ==
    \E l \in TransactionLists :
      \E out \in IF l = <<>> THEN AnalyzeOutcomes(l, self_transactions) ELSE AnalyzeTable[l] :
        /\ bank_transactions' = l
        /\ self_transactions' = out.self_transactions
        /\ returned' = out.returned
        /\ raised' = out.raised
        /\ UNCHANGED <<scorerVars, graphVars, serviceVars>>

NextCashflow == CashflowAnalyze

SpecCashflow == InitCashflow /\ [][NextCashflow]_vars

(***************************************************************************)
(* Claims on the cashflow analyzer.                                        *)
(***************************************************************************)
\* C17: analyze called with an empty transaction list raises the ValueError of
\* line 46, returns no CashflowMetrics and leaves the analyzer's stored
\* transactions as they were before the call.
C17_EmptyListRaises ==
    [][bank_transactions' = <<>> =>
          /\ raised' = "ValueError"
          /\ returned' = <<>>
          /\ self_transactions' = self_transactions]_vars

\* an empty list was refused by an analyzer that holds an earlier analysis
C17_Witness ==
    /\ bank_transactions = <<>>
    /\ raised = "ValueError"
    /\ returned = <<>>
    /\ self_transactions # <<>>

Returned == raised = "" /\ returned # <<>>

MetricsInRange(m) ==
    /\ m.buffer_days >= 0 /\ m.buffer_days <= 900
    /\ m.payment_burden >= 0 /\ m.payment_burden <= 1000
    /\ m.on_time_ratio >= 0 /\ m.on_time_ratio <= 1000
    /\ m.income_cv >= 0 /\ m.income_cv <= 2000
    /\ m.essential_spend_median >= 0
    /\ m.discretionary_spend_median >= 0
    /\ m.nsf_count_90d >= 0

\* C18: for every list of transactions that is not empty and has no zero amount,
\* analyze returns a CashflowMetrics without raising, with buffer_days in [0, 90],
\* payment_burden, on_time_ratio in [0, 1], income_cv in [0, 2], both spend
\* medians and nsf_count_90d at least 0, and transaction_count the length of the
\* input.
C18_AnalyzeInRange ==
    bank_transactions # <<>> =>
        /\ Returned
        /\ MetricsInRange(returned[1])
        /\ returned[1].transaction_count = Len(bank_transactions)

AmountsFinite == \A i \in 1..Len(bank_transactions) : bank_transactions[i].amount # Inf

\* the same on lists whose amounts are all finite (and whose monthly sums are)
C18_FiniteInRange ==
    bank_transactions # <<>> /\ AmountsFinite =>
        /\ Returned
        /\ MetricsInRange(returned[1])
        /\ returned[1].transaction_count = Len(bank_transactions)

\* the monthly sums of the income transactions of the last analysis
IncomeMonths == MonthlyValues(IncomeTxns(self_transactions))

\* the income transactions sum to v > 0 in every month that has income
EqualMonths(v) ==
    /\ bank_transactions # <<>>
    /\ IncomeMonths # <<>>
    /\ v > 0
    /\ \A i \in 1..Len(IncomeMonths) : IncomeMonths[i] = v

RECURSIVE IncidentTxns(_, _)
IncidentTxns(edges, n) ==
    IF edges = <<>> THEN <<>>
    ELSE (IF (Head(edges).u = n \/ Head(edges).v = n) /\ Head(edges).has_transactions
          THEN Head(edges).transactions ELSE <<>>)
         \o IncidentTxns(Tail(edges), n)

\* node n carries the structuring signal that `small` of its incident
\* transactions call for, and none when it is not an account node
StructuringFor(n, small) ==
    LET sigs == SignalsOfType(n, "structuring")
    IN  IF NodeData(graph, n).node_type = "account" /\ small >= 3
        THEN /\ Len(sigs) = 1
             /\ sigs[1].severity = "high"
             /\ sigs[1].transaction_count = small
             /\ Len(sigs[1].amounts) = Min(small, 5)
        ELSE sigs = <<>>

\* C20: after build_graph every account node carries exactly one structuring
\* signal (severity high, with the count and at most the first 5 amounts) if at
\* least 3 transactions on its incident edges have absolute amount below 1000,
\* and none otherwise; a node that is not an account node carries none.
C20_StructuringByAbsoluteAmount ==
    Built =>
        \A n \in NodeIds(graph) :
            LET small(t) == Abs(t.amount) < 1000
            IN  StructuringFor(n, Len(SelectSeq(IncidentTxns(graph.edges, n), small)))

\* the same with the amounts compared as signed numbers
C20_StructuringBySignedAmount ==
    Built =>
        \A n \in NodeIds(graph) :
            LET small(t) == t.amount < 1000
            IN  StructuringFor(n, Len(SelectSeq(IncidentTxns(graph.edges, n), small)))

(***************************************************************************)
(* Further properties of FraudGraphAnalyzer.build_graph, under SpecGraph.  *)
(***************************************************************************)
SignalTypes == {"shared_device", "shared_ip", "structuring", "circular_flow"}

\* C21: after a successful build_graph a node whose risk score is above 5.0,
\* and so every member of high_risk_accounts, carries at least two signals (one
\* signal, even with the degree bonus, stays at or below 5.0), and no node
\* carries two signals of the same type.
C21_HighRiskCorroborated ==
    Built =>
        /\ \A n \in NodeIds(graph) :
              /\ risk_scores[n] > 50 => Len(SignalsAt(n)) >= 2
              /\ \A type \in SignalTypes : CountType(SignalsAt(n), type) <= 1
              /\ \A i \in 1..Len(SignalsAt(n)) : SignalsAt(n)[i].type \in SignalTypes
        /\ \A i \in 1..Len(results.high_risk_accounts) :
              Len(results.high_risk_accounts[i].signals) >= 2

\* a built graph where one node with a single signal has the degree bonus and
\* stays at 4.5 or less, and another node is high-risk
C21_Witness ==
    /\ Built
    /\ \E n \in NodeIds(graph) :
          /\ Len(SignalsAt(n)) = 1
          /\ Degree(graph, n) > 5
          /\ risk_scores[n] = SumWeights(SignalsAt(n)) + 10
    /\ results.high_risk_accounts # <<>>

\* the 24 orders in which the four detectors can be called
DetectorOrders == IterationOrders(Detectors)

Occurrences(signals, sig) == Cardinality({i \in 1..Len(signals) : signals[i] = sig})

\* the two lists hold the same signals, each as many times, in any order
SameSignals(a, b) ==
    \A sig \in Range(a) \cup Range(b) : Occurrences(a, sig) = Occurrences(b, sig)

\* C22: on every built graph, calling the four detectors in any of their 24
\* orders gives every node the same signals (list order aside) and the same
\* risk score as the order build_graph uses.
C22_DetectorOrderIrrelevant ==
    Built =>
        \A cycles \in {SimpleCycles(graph)} :
            \A order \in DetectorOrders :
                \A fs \in {DetectInOrder(graph, <<>>, order, cycles)} :
                    \A n \in NodeIds(graph) :
                        /\ SameSignals(SignalsOf(fs, n), SignalsAt(n))
                        /\ NodeRisk(graph, fs, n) = risk_scores[n]

\* a built graph where a node carries a sharing signal and a circular_flow
\* signal, and calling _detect_circular_flows first lists them the other way
C22_Witness ==
    /\ Built
    /\ \E n \in NodeIds(graph) :
          /\ Len(SignalsAt(n)) >= 2
          /\ HasCircular(fraud_signals, n)
          /\ \E fs \in {DetectInOrder(graph, <<>>,
                            <<"_detect_circular_flows", "_detect_structuring",
                              "_detect_shared_ips", "_detect_shared_devices">>,
                            SimpleCycles(graph))} :
                /\ fs[n] # SignalsAt(n)
                /\ SameSignals(fs[n], SignalsAt(n))

\* C23: in the result of build_graph, high_risk_accounts holds exactly the
\* nodes whose risk score is above 5.0, each once, in order of non-increasing
\* risk score; summary.high_risk_count is its length; and the nodes list holds
\* every node of the graph exactly once.
C23_HighRiskListing ==
    Built =>
        LET high == results.high_risk_accounts
            nodes == results.nodes
        IN  /\ {high[i].id : i \in 1..Len(high)}
                 = {n \in NodeIds(graph) : risk_scores[n] > 50}
            /\ \A i, j \in 1..Len(high) : high[i].id = high[j].id => i = j
            /\ \A i \in 1..Len(high) : high[i].risk_score = risk_scores[high[i].id]
            /\ \A i \in 1..(Len(high) - 1) : high[i].risk_score >= high[i + 1].risk_score
            /\ results.summary.high_risk_count = Len(high)
            /\ {nodes[i].id : i \in 1..Len(nodes)} = NodeIds(graph)
            /\ \A i, j \in 1..Len(nodes) : nodes[i].id = nodes[j].id => i = j

\* a built graph with two high-risk nodes, the one added later scored higher
\* and listed first, beside a node that is not high-risk
C23_Witness ==
    /\ Built
    /\ Len(results.high_risk_accounts) >= 2
    /\ results.high_risk_accounts[1].risk_score > results.high_risk_accounts[2].risk_score
    /\ NodeIndex(graph, results.high_risk_accounts[1].id)
           > NodeIndex(graph, results.high_risk_accounts[2].id)
    /\ \E n \in NodeIds(graph) : risk_scores[n] > 0 /\ risk_scores[n] <= 50

CountryNodes == {i \in 1..Len(graph.nodes) : graph.nodes[i].node_type = "country"}

\* the user nodes joined to node id by a located_in edge
LocatedIn(id) ==
    {n \in NodeIds(graph) :
        /\ NodeData(graph, n).node_type = "user"
        /\ HasEdge(graph, n, id)
        /\ graph.edges[EdgeIndex(graph, n, id)].edge_type = "located_in"}

\* C24: after a successful build_graph there is exactly one country node for
\* each distinct non-empty country value of the users, every user with that
\* country has a located_in edge to it, and every country node's user_count
\* is the number of user nodes joined to it by a located_in edge.
C24_CountryNodes ==
    Built =>
        LET countries == CountriesOf(users_df) \ {""}
        IN  /\ \A c \in countries :
                  Cardinality({i \in CountryNodes : graph.nodes[i].country_name = c}) = 1
            /\ Cardinality(CountryNodes) = Cardinality(countries)
            /\ \A r \in 1..Len(users_df) :
                  users_df[r].country \in countries =>
                      \E i \in CountryNodes :
                          /\ graph.nodes[i].country_name = users_df[r].country
                          /\ users_df[r].user_id \in LocatedIn(graph.nodes[i].id)
            /\ \A i \in CountryNodes :
                  graph.nodes[i].user_count = Cardinality(LocatedIn(graph.nodes[i].id))

\* C25 as stated: the income_cv analyze returns is 0 whenever fewer than two
\* calendar months contain income, the case of no income at all included, or
\* the median monthly income is 0, and it never exceeds 2.0.
C25_CvZeroBelowTwoMonths ==
    Returned =>
        /\ (Len(IncomeMonths) < 2 \/ TwiceMedian(IncomeMonths) = 0)
               => returned[1].income_cv = 0
        /\ returned[1].income_cv <= 2000

\* C25 amended: the income_cv analyze returns is 0 whenever exactly one
\* calendar month contains income or the median monthly income is 0, it is 1.0
\* when no income is found at all, and it never exceeds 2.0.
C25_CvZeroOneMonth ==
    Returned =>
        /\ (Len(IncomeMonths) = 1 \/ (Len(IncomeMonths) >= 2 /\ TwiceMedian(IncomeMonths) = 0))
               => returned[1].income_cv = 0
        /\ Len(IncomeMonths) = 0 => returned[1].income_cv = 1000
        /\ returned[1].income_cv <= 2000

\* three months of income, 0.004, 0.004 and 3000: the ratio is far above 2.0
\* and 2.0 is returned
C25_CapReached ==
    /\ Returned
    /\ Len(IncomeMonths) = 3
    /\ returned[1].income_cv = 2000

\* income in one month only was analyzed
C25_Witness ==
    /\ Returned
    /\ Len(IncomeMonths) = 1
    /\ returned[1].income_cv = 0

(***************************************************************************)
(* Further properties of UnderwritingScorer.score, under Spec.             *)
(***************************************************************************)
\* the PD table's delta for the feature a counterfactual is about, at value
TableDelta(cf, value) ==
    CASE cf.action = "Increase cash buffer to 20 days" -> BufferDelta(value)
      [] cf.action = "Reduce payment burden to 30% of income" -> BurdenDelta(value)
      [] cf.action = "Achieve 100% on-time payment rate for 3 months" -> OnTimeDelta(value)
      [] cf.action = "Eliminate NSF/overdraft events" -> NsfDelta(value)

\* C26: every counterfactual score returns has pd_delta equal to the PD
\* table's delta at its target_value minus the delta at its current_value, for
\* its feature (pd_delta is in units of 0.00001, the table in thousandths).
C26_CounterfactualFromTable ==
    Scored =>
        \A i \in 1..Len(decision.counterfactuals) :
            LET cf == decision.counterfactuals[i]
            IN  cf.pd_delta
                    = 100 * (TableDelta(cf, cf.target_value) - TableDelta(cf, cf.current_value))

AdverseCodes ==
    {"INSUFFICIENT_BUFFER_DAYS", "HIGH_PAYMENT_BURDEN", "LATE_PAYMENT_HISTORY",
     "NSF_EVENTS_DETECTED", "IRREGULAR_INCOME"}

FavourableCodes == {"STRONG_CASH_BUFFER", "LOW_PAYMENT_BURDEN", "STABLE_INCOME"}

\* C27: under the US and the UK thresholds alike, every adverse reason score
\* returns carries an impact above 0 and every favourable reason an impact
\* below 0.
C27_ReasonSigns ==
    Scored =>
        \A i \in 1..Len(decision.reasons) :
            /\ decision.reasons[i].code \in AdverseCodes => decision.reasons[i].impact > 0
            /\ decision.reasons[i].code \in FavourableCodes => decision.reasons[i].impact < 0

\* the same under the US thresholds only
C27_ReasonSignsUS == jurisdiction = "US" => C27_ReasonSigns

\* the graph with only the edges that carry transactions
TransactionGraph ==
    LET carries(e) == e.has_transactions
    IN  [nodes |-> graph.nodes, edges |-> SelectSeq(graph.edges, carries)]

\* C28: after build_graph a node carries a circular_flow signal only if it
\* lies on a cycle of at least 3 distinct nodes whose edges all carry
\* transactions; located_in edges take no part in a detected cycle, so no
\* country node carries a circular_flow signal and two users are not flagged
\* for sharing a country and transacting with each other.
C28_CircularOnlyOnTransactionCycles ==
    Built =>
        \A n \in NodeIds(graph) :
            HasCircular(fraud_signals, n) =>
                /\ OnCycle(TransactionGraph, n)
                /\ NodeData(graph, n).node_type # "country"

(***************************************************************************)
(* LivenessCheckerV2 (liveness_checker_v2.py).  Scores and risks are in    *)
(* ten-thousandths (8000 = 0.8).  An image is described by what the image  *)
(* libraries report on it: the length of the decoded bytes, the format     *)
(* ("" when the bytes cannot be opened), whether a side is below 200       *)
(* pixels, the outcome of the face analysis ("face", "no_face", or "error" *)
(* when DeepFace raises), the confidence of the detected face, the neutral *)
(* emotion score in percent, whether the aspect ratio or the variance      *)
(* looks like a screen, and the embedding.                                 *)
(***************************************************************************)
FLAGGED_DEVICES == {"suspicious_device_001", "known_fraud_device_42"}

MIN_LIVENESS_SCORE == 6000

MAX_DEVICE_RISK == 8000

HIGH_DEVICE_RISK == 7000

Image(size, format, low_resolution, analysis, face_confidence, neutral, screen, embedding) ==
    [size |-> size, format |-> format, low_resolution |-> low_resolution,
     analysis |-> analysis, face_confidence |-> face_confidence, neutral |-> neutral,
     screen |-> screen, embedding |-> embedding]

LivenessCheck(uid, image, device) ==
    [user_id |-> uid, image_data |-> image, device_fingerprint |-> device]

\* _failed_result
FailedResult(uid, flags) ==
    [user_id |-> uid, liveness_pass |-> FALSE, liveness_score |-> 0,
     replay_detected |-> FALSE, sanctions_pass |-> TRUE, device_risk_score |-> 0,
     flags |-> flags]

\* _analyze_face, when it does not raise
AnalyzeFace(image) ==
    IF image.analysis = "no_face"
    THEN [face_detected |-> FALSE, liveness_score |-> 0, is_deepfake |-> FALSE,
          face_embedding |-> <<>>]
    ELSE [face_detected |-> TRUE,
          liveness_score |-> IF image.face_confidence > 0
                             THEN Min(9500, image.face_confidence) ELSE 7500,
          is_deepfake |-> image.face_confidence > 9990 \/ image.neutral > 98,
          face_embedding |-> image.embedding]

\* _detect_replay
DetectReplay(image) == image.size < 5000 \/ image.screen

\* int(hashlib.sha256(device_fp.encode()).hexdigest()[:8], 16)
DeviceHashValue(device_fp) ==
    CASE device_fp = "device_a" -> 1911919310
      [] device_fp = "dev2" -> 1161193545

\* _compute_device_risk, with user_count > 5 read as user_count > 6
ComputeDeviceRiskAboveSix(usage, device_fp) ==
    IF device_fp \in FLAGGED_DEVICES THEN 9500
    ELSE LET user_count == Cardinality(Get(usage, device_fp, {}))
         IN  IF user_count > 10 THEN 9000
             ELSE IF user_count > 6 THEN 8000
             ELSE IF user_count > 2 THEN 5000
             ELSE 500 + (DeviceHashValue(device_fp) % 100) * 25

\* _compute_device_risk
ComputeDeviceRisk(usage, device_fp) ==
    IF device_fp \in FLAGGED_DEVICES THEN 9500
    ELSE LET user_count == Cardinality(Get(usage, device_fp, {}))
         IN  IF user_count > 10 THEN 9000
             ELSE IF user_count > 5 THEN 8000
             ELSE IF user_count > 2 THEN 5000
             ELSE 500 + (DeviceHashValue(device_fp) % 100) * 25

\* _check_velocity_abuse
CheckVelocityAbuse(history, uid) == Get(history, uid, 0) > 10

Dot(a, b) == a[1] * b[1] + a[2] * b[2]

\* similarity > 0.8 for the cosine similarity of two embeddings
Similar(a, b) == Dot(a, b) > 0 /\ 25 * Dot(a, b) * Dot(a, b) > 16 * Dot(a, a) * Dot(b, b)

\* _check_duplicate_face
CheckDuplicateFace(embeddings, uid, new_embedding) ==
    \E other \in DOMAIN embeddings \ {uid} : Similar(new_embedding, embeddings[other])

\* round(x, 3) of a value in ten-thousandths
Round3(x) == 10 * ((x + 5) \div 10)

\* d[key] = value
DictSet(d, key, value) ==
    [k \in DOMAIN d \cup {key} |-> IF k = key THEN value ELSE d[k]]

FlagIf(cond, flag) == IF cond THEN <<flag>> ELSE <<>>

\* _track_usage: the check count and the device's users after the check
TrackedHistory(history, check) ==
    DictSet(history, check.user_id, Get(history, check.user_id, 0) + 1)

TrackedUsage(usage, check) ==
    DictSet(usage, check.device_fingerprint,
            Get(usage, check.device_fingerprint, {}) \cup {check.user_id})

\* verify_liveness on a checker holding (history, usage, embeddings), where the
\* sanctions screening of the name answers sanctions_pass: the result, the
\* embedding returned (<<>> for None) and the checker's fields afterwards
VerifyLiveness(history, usage, embeddings, check, sanctions_pass) ==
    LET image == check.image_data
        uid == check.user_id
        early(flags) ==
            [result |-> FailedResult(uid, flags), embedding |-> <<>>,
             check_history |-> history, device_usage |-> usage,
             face_embeddings |-> embeddings]
    IN  IF image.size < 1000 THEN early(<<"IMAGE_TOO_SMALL">>)
        ELSE IF image.format = "" THEN early(<<"INVALID_IMAGE_FORMAT">>)
        ELSE IF image.format \notin {"JPEG", "JPG", "PNG"}
             THEN early(<<"UNSUPPORTED_FORMAT">>)
        ELSE IF image.analysis = "no_face"
             THEN early(FlagIf(image.low_resolution, "IMAGE_RESOLUTION_TOO_LOW")
                        \o <<"NO_FACE_DETECTED">>)
        ELSE
          LET failed == image.analysis = "error"
              face == AnalyzeFace(image)
              liveness_score == IF failed THEN 5000 ELSE face.liveness_score
              is_deepfake == IF failed THEN FALSE ELSE face.is_deepfake
              face_embedding == IF failed THEN <<>> ELSE face.face_embedding
              replay_detected == DetectReplay(image)
              device_risk == ComputeDeviceRisk(usage, check.device_fingerprint)
              duplicate == /\ face_embedding # <<>>
                           /\ CheckDuplicateFace(embeddings, uid, face_embedding)
              flags == FlagIf(image.low_resolution, "IMAGE_RESOLUTION_TOO_LOW")
                       \o FlagIf(~failed /\ is_deepfake, "DEEPFAKE_DETECTED")
                       \o FlagIf(failed, "FACE_DETECTION_ERROR")
                       \o FlagIf(replay_detected, "REPLAY_DETECTED")
                       \o FlagIf(~sanctions_pass, "SANCTIONS_MATCH")
                       \o FlagIf(device_risk > HIGH_DEVICE_RISK, "HIGH_DEVICE_RISK")
                       \o FlagIf(CheckVelocityAbuse(history, uid), "VELOCITY_ABUSE")
                       \o FlagIf(duplicate, "DUPLICATE_IDENTITY")
              liveness_pass == /\ liveness_score >= MIN_LIVENESS_SCORE
                               /\ ~is_deepfake
                               /\ ~replay_detected
                               /\ sanctions_pass
                               /\ device_risk < MAX_DEVICE_RISK
                               /\ ~duplicate
          IN  [result |-> [user_id |-> uid, liveness_pass |-> liveness_pass,
                           liveness_score |-> Round3(liveness_score),
                           replay_detected |-> replay_detected,
                           sanctions_pass |-> sanctions_pass,
                           device_risk_score |-> Round3(device_risk),
                           flags |-> flags],
               embedding |-> face_embedding,
               check_history |-> TrackedHistory(history, check),
               device_usage |-> TrackedUsage(usage, check),
               face_embeddings |-> IF face_embedding # <<>> /\ liveness_pass
                                   THEN DictSet(embeddings, uid, face_embedding)
                                   ELSE embeddings]

\* the users, devices and images of the verify_liveness calls
LivenessUsers == {"u1", "u2", "u3", "u4", "u5", "u6"}

LivenessDevices == {"device_a"}

MaxChecks == 2

ImagePool ==
    {Image(20000, "JPEG", FALSE, "face", 9300, 40, FALSE, <<1, 0>>),
     Image(600, "JPEG", TRUE, "no_face", 0, 0, FALSE, <<>>),
     Image(20000, "JPEG", FALSE, "error", 0, 0, FALSE, <<>>)}

InitLiveness ==
    /\ pc = "unused"
    /\ user_id = "user_1"
    /\ personal_data = [tenure_months |-> 18]
    /\ cashflow_metrics = <<>>
    /\ liveness_result = <<>>
    /\ jurisdiction = "US"
    /\ pd_score = <<>>
    /\ feature_impacts = <<>>
    /\ decision = <<>>
    /\ GraphIdle
    /\ CashflowIdle
    /\ ServiceIdle

\* one verify_liveness call on the checker
Verify ==
    \E uid \in LivenessUsers, image \in ImagePool, device \in LivenessDevices,
       sanctions_pass \in BOOLEAN :
        /\ Get(check_history, uid, 0) < MaxChecks
        /\ \E out \in {VerifyLiveness(check_history, device_usage, face_embeddings,
                                      LivenessCheck(uid, image, device), sanctions_pass)} :
            /\ check_history' = out.check_history
            /\ device_usage' = out.device_usage
            /\ face_embeddings' = out.face_embeddings
            /\ liveness_call' = [check |-> LivenessCheck(uid, image, device),
                                 result |-> out.result]
        /\ UNCHANGED <<scorerVars, graphVars, cashVars, dbVars>>

NextLiveness == Verify

SpecLiveness == InitLiveness /\ [][NextLiveness]_vars

(***************************************************************************)
(* Claims on LivenessCheckerV2, checked under SpecLiveness.                *)
(***************************************************************************)
UsersOf(usage, device) == Get(usage, device, {})

\* C30: across any sequence of verify_liveness calls on one checker, the users
\* recorded for a device are never removed, and once more than 5 distinct
\* users have completed a tracked check with a device fingerprint every later
\* call with that fingerprint returns liveness_pass = False, whatever the
\* image and the user.
C30_SharedDeviceBlocked ==
    [][\A device \in LivenessDevices :
         /\ UsersOf(device_usage, device) \subseteq UsersOf(device_usage', device)
         /\ (/\ Cardinality(UsersOf(device_usage, device)) > 5
             /\ liveness_call'.check.device_fingerprint = device)
                => ~liveness_call'.result.liveness_pass]_vars

\* a user who passed before calls again with the same good image, after six
\* users have used the device: the check fails on the device risk alone
C30_Witness ==
    /\ liveness_call # <<>>
    /\ liveness_call.check.image_data.analysis = "face"
    /\ Get(check_history, liveness_call.check.user_id, 0) = 2
    /\ UsersOf(device_usage, liveness_call.check.device_fingerprint) = LivenessUsers
    /\ Get(face_embeddings, liveness_call.check.user_id, <<>>) # <<>>
    /\ ~liveness_call.result.liveness_pass
    /\ liveness_call.result.flags = <<"HIGH_DEVICE_RISK">>
    /\ liveness_call.result.device_risk_score = MAX_DEVICE_RISK

(***************************************************************************)
(* The underwriting endpoints of main.py over the tables of database.py.   *)
(* A stored transaction is named by its txn_id, the index of its row in    *)
(* BankPool; income is in whole currency units.                            *)
(***************************************************************************)
PersonalRow(full_name, address, monthly_income, tenure_months) ==
    [full_name |-> full_name, address |-> address, country |-> "US",
     employment_status |-> "full_time", monthly_income |-> monthly_income,
     tenure_months |-> tenure_months]

\* the placeholder user of upload_transactions
PlaceholderUser == PersonalRow("Pending", "Pending", 0, 0)

\* the field constraints of models.PersonalData
ValidPersonalData(row) ==
    /\ Len(row.full_name) >= 2
    /\ Len(row.address) >= 10
    /\ row.monthly_income > 0
    /\ row.tenure_months >= 0

Response(endpoint, uid, status_code) ==
    [endpoint |-> endpoint, user_id |-> uid, status_code |-> status_code]

\* db.query(Transaction).filter(Transaction.user_id == user_id)
TransactionsOf(table, uid) == Get(table, uid, {})

\* the txn_ids stored for the other users (txn_id is unique in the table)
TxnIdsOfOthers(table, uid) == UNION {table[other] : other \in DOMAIN table \ {uid}}

\* db.query(LivenessCheckDB).filter(LivenessCheckDB.user_id == user_id)
LivenessOf(rows, uid) ==
    LET ofUser(row) == row.user_id = uid
    IN  SelectSeq(rows, ofUser)

DecisionsOf(rows, uid) ==
    LET ofUser(row) == row.user_id = uid
    IN  SelectSeq(rows, ofUser)

\* .order_by(LivenessCheckDB.created_at.desc()).first()
LatestLiveness(rows, uid) == LivenessOf(rows, uid)[Len(LivenessOf(rows, uid))]

\* the rows of a table that do not belong to the user
WithoutUser(rows, uid) ==
    LET ofOther(row) == row.user_id # uid
    IN  SelectSeq(rows, ofOther)

DictDel(d, key) == [k \in DOMAIN d \ {key} |-> d[k]]

\* get_underwriting_status
GetUnderwritingStatus(uid) ==
    LET transactions_count == Cardinality(TransactionsOf(db_transactions, uid))
        has_personal_data == uid \in DOMAIN db_users /\ db_users[uid].full_name # "Pending"
        liveness_checked == LivenessOf(db_liveness, uid) # <<>>
    IN  [transactions_uploaded |-> transactions_count > 0,
         personal_data_submitted |-> has_personal_data,
         liveness_checked |-> liveness_checked,
         decision_made |-> DecisionsOf(db_decisions, uid) # <<>>,
         ready_for_analysis |-> transactions_count > 0 /\ has_personal_data
                                /\ liveness_checked]

\* await applied to a coroutine: the value it returns
AwaitedCoroutine(value) == [raised |-> "", value |-> value]

\* await applied to the tuple verify_liveness returned: a tuple is not awaitable
Awaited(value) == [raised |-> "TypeError", value |-> <<>>]

\* the requests made of the service
Applicants == {"a1", "a2"}

PersonalPool ==
    {PersonalRow("Ada Lovelace", "12 Main Street", 3000, 24),
     PersonalRow("Pending", "12 Main Street", 3000, 24)}

UploadPool == {{}, {1}, {1, 2}}

ServiceImages == {image \in ImagePool : image.analysis = "face"}

\* the placeholder creation shared by the two upload handlers
WithPlaceholder(users, uid) ==
    IF uid \in DOMAIN users THEN users ELSE DictSet(users, uid, PlaceholderUser)

\* the delete and inserts of an upload: committed, or rolled back on a txn_id
\* stored for another user
StoreTransactions(endpoint, uid, txn_ids) ==
    /\ db_users' = WithPlaceholder(db_users, uid)
    /\ IF txn_ids \cap TxnIdsOfOthers(db_transactions, uid) # {}
       THEN /\ UNCHANGED db_transactions
            /\ response' = Response(endpoint, uid, 500)
       ELSE /\ db_transactions' = DictSet(db_transactions, uid, txn_ids)
            /\ response' = Response(endpoint, uid, 200)
    /\ UNCHANGED <<db_liveness, db_decisions>>

\* upload_transactions
UploadTransactions ==
    \E uid \in Applicants, txn_ids \in UploadPool :
        /\ IF txn_ids = {}
           THEN /\ response' = Response("transactions", uid, 500)
                /\ UNCHANGED <<db_users, db_transactions, db_liveness, db_decisions>>
           ELSE StoreTransactions("transactions", uid, txn_ids)
        /\ UNCHANGED <<scorerVars, graphVars, cashVars, checkerVars>>

\* upload_transactions_csv, for a file with the required columns
UploadTransactionsCsv ==
    \E uid \in Applicants, txn_ids \in UploadPool :
        /\ StoreTransactions("transactions/csv", uid, txn_ids)
        /\ UNCHANGED <<scorerVars, graphVars, cashVars, checkerVars>>

\* submit_personal_data
SubmitPersonalData ==
    \E uid \in Applicants, row \in PersonalPool :
        /\ db_users' = DictSet(db_users, uid, row)
        /\ response' = Response("personal-data", uid, 200)
        /\ UNCHANGED <<db_transactions, db_liveness, db_decisions>>
        /\ UNCHANGED <<scorerVars, graphVars, cashVars, checkerVars>>

\* the liveness_checks row check_liveness builds from a result
LivenessRow(check, result) ==
    [user_id |-> check.user_id, device_fingerprint |-> check.device_fingerprint,
     liveness_pass |-> result.liveness_pass, liveness_score |-> result.liveness_score,
     replay_detected |-> result.replay_detected,
     sanctions_pass |-> result.sanctions_pass,
     device_risk_score |-> result.device_risk_score, flags |-> result.flags]

\* check_liveness
CheckLiveness ==
    \E uid \in Applicants, image \in ServiceImages, device \in LivenessDevices :
        /\ Get(check_history, uid, 0) < MaxChecks
        /\ \E out \in {VerifyLiveness(check_history, device_usage, face_embeddings,
                                      LivenessCheck(uid, image, device), TRUE)} :
            /\ check_history' = out.check_history
            /\ device_usage' = out.device_usage
            /\ face_embeddings' = out.face_embeddings
            /\ liveness_call' = [check |-> LivenessCheck(uid, image, device),
                                 result |-> out.result]
            /\ \E awaited \in {Awaited(out.result)} :
                IF awaited.raised # ""
                THEN /\ response' = Response("liveness", uid, 500)
                     /\ UNCHANGED db_liveness
                ELSE /\ db_liveness' =
                            Append(db_liveness,
                                   LivenessRow(LivenessCheck(uid, image, device),
                                               awaited.value))
                     /\ response' = Response("liveness", uid, 200)
        /\ UNCHANGED <<db_users, db_transactions, db_decisions>>
        /\ UNCHANGED <<scorerVars, graphVars, cashVars>>

\* the decisions row analyze_underwriting stores: what was scored, and the gate
DecisionRow(uid, j, user, metrics, liveness) ==
    [user_id |-> uid, jurisdiction |-> j,
     fraud_gate_passed |-> ~FraudGateFailed(liveness),
     personal_data |-> user, cashflow_metrics |-> metrics, liveness_result |-> liveness]

\* analyze_underwriting
AnalyzeUnderwriting ==
    \E uid \in Applicants, j \in Jurisdictions :
        /\ UNCHANGED <<db_users, db_transactions, db_liveness>>
        /\ UNCHANGED <<scorerVars, graphVars, checkerVars>>
        /\ IF uid \notin DOMAIN db_users
           THEN /\ response' = Response("analyze", uid, 404)
                /\ UNCHANGED <<db_decisions, cashVars>>
           ELSE IF TransactionsOf(db_transactions, uid) = {}
                   \/ LivenessOf(db_liveness, uid) = <<>>
           THEN /\ response' = Response("analyze", uid, 400)
                /\ UNCHANGED <<db_decisions, cashVars>>
           ELSE IF ~ValidPersonalData(db_users[uid])
           THEN /\ response' = Response("analyze", uid, 500)
                /\ UNCHANGED <<db_decisions, cashVars>>
           ELSE \E out \in AnalyzeOutcomes(ListOf(TransactionsOf(db_transactions, uid)),
                                           self_transactions) :
                    /\ bank_transactions' = ListOf(TransactionsOf(db_transactions, uid))
                    /\ self_transactions' = out.self_transactions
                    /\ returned' = out.returned
                    /\ raised' = out.raised
                    /\ IF out.raised # ""
                       THEN /\ response' = Response("analyze", uid, 500)
                            /\ UNCHANGED db_decisions
                       ELSE /\ db_decisions' =
                                   Append(db_decisions,
                                          DecisionRow(uid, j, db_users[uid],
                                                      out.returned[1],
                                                      LatestLiveness(db_liveness, uid)))
                            /\ response' = Response("analyze", uid, 200)

\* clear_user_data
ClearUserData ==
    \E uid \in Applicants :
        /\ IF uid \notin DOMAIN db_users
           THEN /\ response' = Response("user", uid, 404)
                /\ UNCHANGED <<db_users, db_transactions, db_liveness, db_decisions>>
           ELSE /\ db_users' = DictDel(db_users, uid)
                /\ db_transactions' = DictDel(db_transactions, uid)
                /\ db_liveness' = WithoutUser(db_liveness, uid)
                /\ db_decisions' = WithoutUser(db_decisions, uid)
                /\ response' = Response("user", uid, 200)
        /\ UNCHANGED <<scorerVars, graphVars, cashVars, checkerVars>>

InitService ==
    /\ pc = "unused"
    /\ user_id = "user_1"
    /\ personal_data = [tenure_months |-> 18]
    /\ cashflow_metrics = <<>>
    /\ liveness_result = <<>>
    /\ jurisdiction = "US"
    /\ pd_score = <<>>
    /\ feature_impacts = <<>>
    /\ decision = <<>>
    /\ GraphIdle
    /\ CashflowIdle
    /\ ServiceIdle

NextService ==
    \/ UploadTransactions
    \/ UploadTransactionsCsv
    \/ SubmitPersonalData
    \/ CheckLiveness
    \/ AnalyzeUnderwriting
    \/ ClearUserData

SpecService == InitService /\ [][NextService]_vars

(***************************************************************************)
(* Claims on the underwriting endpoints, checked under SpecService.        *)
(***************************************************************************)
\* the user's row was written by submit_personal_data
Submitted(uid) == uid \in DOMAIN db_users /\ db_users[uid] # PlaceholderUser

====
